---- MODULE Spec2Model ----
(***************************************************************************)
(* Validation & Eligibility Engine of the document verifier.               *)
(*                                                                         *)
(* A text is a sequence of tokens.  A value read off a document or given   *)
(* by the applicant is a sequence of one-character tokens; a message built *)
(* by the code is the concatenation of literal chunks (one token each) and *)
(* of the interpolated values.                                             *)
(*                                                                         *)
(* A Date is a record [valid, y, m, d, t]: a local calendar day and a time *)
(* of day t (0 = midnight, 1 = later that day); valid = FALSE is the       *)
(* JavaScript "Invalid Date" (time value NaN).  A number that may be NaN   *)
(* is a record [nan, v].                                                   *)
(***************************************************************************)
EXTENDS Integers, Sequences, FiniteSets, TLC

VARIABLES
    pc,         \* position of the caller: "received", "start", "validated",
                \* "assessed", "done", "failed"; "call", "returned"
    now,        \* the system clock, read by every new Date()
    ticks,      \* how many times the clock advanced
    fields,     \* ExtractedFields: field name -> [present, value, confidence]
    claim,      \* applicantData: [name, dateOfBirth, passportNumber, nationality, intendedVisaType]
    checks,     \* validationChecks: sequence of [field, passed, message]
    elig,       \* eligibilityAssessment: [eligible, reason, visaType], or NoResult
    response,   \* what the vision call of the request gives: [kind, entries]
    visionCalls,\* how many times the vision model was called
    result      \* what the endpoint answers: [status, overallConfidence,
                \* recommendedActions, summary, error]

vars == <<pc, now, ticks, fields, claim, checks, elig, response, visionCalls, result>>

-----------------------------------------------------------------------------
(* Bounds of the model *)

MaxTicks == 1
MaxChecks == 2
MaxPassed == 7

-----------------------------------------------------------------------------
(* Characters and texts *)

UpperChars == <<"A","B","C","D","E","F","G","H","I","J","K","L","M",
                "N","O","P","Q","R","S","T","U","V","W","X","Y","Z">>
LowerChars == <<"a","b","c","d","e","f","g","h","i","j","k","l","m",
                "n","o","p","q","r","s","t","u","v","w","x","y","z">>
DigitChars == <<"0","1","2","3","4","5","6","7","8","9">>

Range(s) == { s[i] : i \in 1..Len(s) }

IsDigit(c) == c \in Range(DigitChars)

DigitValue(c) == (CHOOSE i \in 1..10 : DigitChars[i] = c) - 1

LowerChar(c) ==
    IF c \in Range(UpperChars)
    THEN LowerChars[CHOOSE i \in 1..26 : UpperChars[i] = c]
    ELSE c

UpperChar(c) ==
    IF c \in Range(LowerChars)
    THEN UpperChars[CHOOSE i \in 1..26 : LowerChars[i] = c]
    ELSE c

ToLowerCase(s) == [i \in 1..Len(s) |-> LowerChar(s[i])]

ToUpperCase(s) == [i \in 1..Len(s) |-> UpperChar(s[i])]

RECURSIVE TrimStart(_)
TrimStart(s) == IF s # <<>> /\ Head(s) = " " THEN TrimStart(Tail(s)) ELSE s

RECURSIVE TrimEnd(_)
TrimEnd(s) ==
    IF s # <<>> /\ s[Len(s)] = " " THEN TrimEnd(SubSeq(s, 1, Len(s) - 1)) ELSE s

Trim(s) == TrimEnd(TrimStart(s))

\* String.prototype.includes: part occurs in s as a contiguous run
Includes(s, part) ==
    \E i \in 0..(Len(s) - Len(part)) : SubSeq(s, i + 1, i + Len(part)) = part

\* Array.prototype.join
RECURSIVE Join(_, _)
Join(texts, sep) ==
    IF texts = <<>> THEN <<>>
    ELSE IF Len(texts) = 1 THEN texts[1]
    ELSE texts[1] \o sep \o Join(Tail(texts), sep)

-----------------------------------------------------------------------------
(* Numbers that may be NaN *)

Num(n) == [nan |-> FALSE, v |-> n]
NaN == [nan |-> TRUE, v |-> 0]

\* a < b, a > b, a >= b of JavaScript: false as soon as one side is NaN
NumLt(a, b) == ~a.nan /\ ~b.nan /\ a.v < b.v
NumGt(a, b) == ~a.nan /\ ~b.nan /\ a.v > b.v
NumGe(a, b) == ~a.nan /\ ~b.nan /\ a.v >= b.v

\* template-literal rendering of a number
NumText(a) == IF a.nan THEN <<"NaN">> ELSE <<ToString(a.v)>>

-----------------------------------------------------------------------------
(* Dates *)

InvalidDate == [valid |-> FALSE, y |-> 0, m |-> 0, d |-> 0, t |-> 0]

MkDate(y, m, d, t) == [valid |-> TRUE, y |-> y, m |-> m, d |-> d, t |-> t]

IsLeapYear(y) == (y % 4 = 0 /\ y % 100 # 0) \/ y % 400 = 0

DaysInMonth(y, m) ==
    IF m = 2 THEN (IF IsLeapYear(y) THEN 29 ELSE 28)
    ELSE IF m \in {4, 6, 9, 11} THEN 30
    ELSE 31

\* the order of two valid dates is the order of their time values
TimeKey(dt) == ((dt.y * 12 + (dt.m - 1)) * 31 + (dt.d - 1)) * 2 + dt.t

\* date-fns parseISO, on the calendar-date form YYYY-MM-DD: local midnight
\* of that day; anything else, or a day that is not in the calendar, is an
\* Invalid Date (parseISO does not throw)
ParseISO(s) ==
    IF /\ Len(s) = 10
       /\ s[5] = "-" /\ s[8] = "-"
       /\ \A i \in {1, 2, 3, 4, 6, 7, 9, 10} : IsDigit(s[i])
    THEN LET y == DigitValue(s[1]) * 1000 + DigitValue(s[2]) * 100
                  + DigitValue(s[3]) * 10 + DigitValue(s[4])
             m == DigitValue(s[6]) * 10 + DigitValue(s[7])
             d == DigitValue(s[9]) * 10 + DigitValue(s[10])
         IN  IF m \in 1..12 /\ d >= 1 /\ d <= DaysInMonth(y, m)
             THEN MkDate(y, m, d, 0)
             ELSE InvalidDate
    ELSE InvalidDate

\* date-fns isBefore: getTime() < getTime(), false when either is NaN
IsBefore(a, b) == a.valid /\ b.valid /\ TimeKey(a) < TimeKey(b)

\* the relational operator < on two Date objects (valueOf on both sides)
DateLt(a, b) == a.valid /\ b.valid /\ TimeKey(a) < TimeKey(b)

\* date-fns compareAsc: -1, 0, 1, or NaN when either date is invalid
CompareAsc(a, b) ==
    IF ~a.valid \/ ~b.valid THEN NaN
    ELSE IF TimeKey(a) < TimeKey(b) THEN Num(-1)
    ELSE IF TimeKey(a) > TimeKey(b) THEN Num(1)
    ELSE Num(0)

\* date-fns differenceInYears(left, right): full years between the dates;
\* both are moved to the leap year 1584 to decide whether the last year is full
DifferenceInYears(left, right) ==
    LET sign == CompareAsc(left, right)
    IN  IF sign.nan THEN NaN
        ELSE LET difference == IF left.y >= right.y THEN left.y - right.y
                               ELSE right.y - left.y
                 l == [left EXCEPT !.y = 1584]
                 r == [right EXCEPT !.y = 1584]
                 isLastYearNotFull == CompareAsc(l, r).v = -sign.v
             IN  Num(sign.v * (difference - (IF isLastYearNotFull THEN 1 ELSE 0)))

\* date-fns addMonths(date, amount): same day of the month, clamped to the
\* last day of the desired month; the time of day is kept
AddMonths(date, amount) ==
    IF ~date.valid \/ amount.nan THEN InvalidDate
    ELSE LET idx == date.y * 12 + (date.m - 1) + amount.v
             ty == idx \div 12
             tm == (idx % 12) + 1
             dim == DaysInMonth(ty, tm)
         IN  MkDate(ty, tm, IF date.d >= dim THEN dim ELSE date.d, date.t)

\* Date.prototype.setMonth(getMonth() + n): a day past the end of the
\* desired month overflows into the month after it
SetMonthPlus(date, n) ==
    LET idx == date.y * 12 + (date.m - 1) + n
        ty == idx \div 12
        tm == (idx % 12) + 1
        dim == DaysInMonth(ty, tm)
    IN  IF date.d <= dim THEN MkDate(ty, tm, date.d, date.t)
        ELSE MkDate((idx + 1) \div 12, ((idx + 1) % 12) + 1, date.d - dim, date.t)

-----------------------------------------------------------------------------
(* The field model *)

\* the named keys of ExtractedFields, in the order of the interface (and of
\* the JSON the vision prompt asks for), which is the order of Object.entries
FieldOrder == <<"documentType", "documentNumber", "firstName", "lastName",
                "fullName", "dateOfBirth", "nationality", "issueDate",
                "expiryDate", "mrzLine1", "mrzLine2", "mrzLine3">>

FieldNames == Range(FieldOrder)

AbsentField == [present |-> FALSE, value |-> <<>>, confidence |-> 0]

Field(v, c) == [present |-> TRUE, value |-> v, confidence |-> c]

\* extractedFields.k?.value, as a condition: the key is present and its
\* value is a non-empty string
HasValue(fs, k) == fs[k].present /\ fs[k].value # <<>>

\* x || '' on an optional value
ValueOrEmpty(fs, k) == IF HasValue(fs, k) THEN fs[k].value ELSE <<>>

Check(f, p, msg) == [field |-> f, passed |-> p, message |-> msg]

-----------------------------------------------------------------------------
(* Similarity utility *)

\* one row of the edit-distance matrix: matrix[i][0..Len(str1)], from row i-1
RECURSIVE LevRow(_, _, _, _, _)
LevRow(str1, c, prev, j, acc) ==
    IF j > Len(str1) THEN acc
    ELSE LET cell == IF c = str1[j] THEN prev[j]
                     ELSE LET x == prev[j] + 1
                              y == acc[j] + 1
                              z == prev[j + 1] + 1
                              xy == IF x < y THEN x ELSE y
                          IN  IF xy < z THEN xy ELSE z
         IN  LevRow(str1, c, prev, j + 1, Append(acc, cell))

RECURSIVE LevRows(_, _, _, _)
LevRows(str1, str2, i, prev) ==
    IF i > Len(str2) THEN prev
    ELSE LET row == LevRow(str1, str2[i], prev, 1, <<i>>)
         IN  \* the test makes TLC finish this row before it starts the next
             IF Len(row) = Len(prev) THEN LevRows(str1, str2, i + 1, row)
             ELSE row

\* the rows are indexed from 1 here: row[j + 1] is matrix[i][j]
levenshteinDistance(str1, str2) ==
    LevRows(str1, str2, 1, [j \in 1..(Len(str1) + 1) |-> j - 1])[Len(str1) + 1]

\* calculateSimilarity as the fraction [num, den]; 1/1 for two empty strings
calculateSimilarity(str1, str2) ==
    LET longer == IF Len(str1) > Len(str2) THEN str1 ELSE str2
        shorter == IF Len(str1) > Len(str2) THEN str2 ELSE str1
    IN  IF Len(longer) = 0 THEN [num |-> 1, den |-> 1]
        ELSE [num |-> Len(longer) - levenshteinDistance(longer, shorter),
              den |-> Len(longer)]

\* q >= 0.7
FracGeSevenTenths(q) == 10 * q.num >= 7 * q.den

\* q > 0.7 for a fraction q of small integers
FracGtSevenTenths(q) == 10 * q.num > 7 * q.den

-----------------------------------------------------------------------------
(* MRZ structural validator *)

\* /^[A-Z0-9<]+$/.test(line)
validMRZChars(line) ==
    /\ line # <<>>
    /\ \A i \in 1..Len(line) :
          line[i] \in Range(UpperChars) \cup Range(DigitChars) \cup {"<"}

validateTD3Checksum(line1, line2) == validMRZChars(line1) /\ validMRZChars(line2)

validateTD1Checksum(line1, line2, line3) ==
    validMRZChars(line1) /\ validMRZChars(line2) /\ validMRZChars(line3)

\* validateMRZ failing the lines of every other length
validateMRZ_OtherLengthsFail(line1, line2, line3) ==
    IF Len(line1) = 44 /\ Len(line2) = 44
    THEN validateTD3Checksum(line1, line2)
    ELSE /\ Len(line1) = 30 /\ Len(line2) = 30 /\ Len(line3) = 30
         /\ validateTD1Checksum(line1, line2, line3)

\* line3 is <<>> when mrzLine3 is absent or empty (both falsy)
validateMRZ(line1, line2, line3) ==
    IF Len(line1) = 44 /\ Len(line2) = 44
    THEN validateTD3Checksum(line1, line2)
    ELSE IF Len(line1) = 30 /\ Len(line2) = 30 /\ line3 # <<>> /\ Len(line3) = 30
    THEN validateTD1Checksum(line1, line2, line3)
    ELSE TRUE

-----------------------------------------------------------------------------
(* Document validator: validateDocument, rule by rule.  None of parseISO,  *)
(* isBefore and differenceInYears throws, so the catch blocks of rules 1,  *)
(* 2 and 4 are never entered: an unparseable date is an Invalid Date that  *)
(* flows through the comparisons of the try block.                         *)

\* the expiry rule without the !isExpired guard of the warning
ExpiryChecks_WarnExpired(fs, today) ==
    IF ~HasValue(fs, "expiryDate") THEN <<>>
    ELSE LET v == fs["expiryDate"].value
             expiryDate == ParseISO(v)
             isExpired == IsBefore(expiryDate, today)
         IN  <<Check("expiryDate", ~isExpired,
                     IF isExpired THEN <<"Document expired on ">> \o v
                     ELSE <<"Document valid until ">> \o v)>>
             \o (IF IsBefore(expiryDate, SetMonthPlus(today, 6))
                 THEN <<Check("expiryDate", TRUE,
                              <<"Warning: Document expires within 6 months">>)>>
                 ELSE <<>>)

\* the expiry rule passing the expired documents and failing the others
ExpiryChecks_Inverted(fs, today) ==
    IF ~HasValue(fs, "expiryDate") THEN <<>>
    ELSE LET v == fs["expiryDate"].value
             isExpired == IsBefore(ParseISO(v), today)
         IN  <<Check("expiryDate", isExpired,
                     IF isExpired THEN <<"Document valid until ">> \o v
                     ELSE <<"Document expired on ">> \o v)>>

\* 1. document expiry check
ExpiryChecks(fs, today) ==
    IF ~HasValue(fs, "expiryDate") THEN <<>>
    ELSE LET v == fs["expiryDate"].value
             expiryDate == ParseISO(v)
             isExpired == IsBefore(expiryDate, today)
             sixMonthsFromNow == SetMonthPlus(today, 6)
         IN  <<Check("expiryDate", ~isExpired,
                     IF isExpired THEN <<"Document expired on ">> \o v
                     ELSE <<"Document valid until ">> \o v)>>
             \o (IF ~isExpired /\ IsBefore(expiryDate, sixMonthsFromNow)
                 THEN <<Check("expiryDate", TRUE,
                              <<"Warning: Document expires within 6 months">>)>>
                 ELSE <<>>)

\* 2. issue date check
IssueDateChecks(fs, today) ==
    IF ~HasValue(fs, "issueDate") THEN <<>>
    ELSE LET v == fs["issueDate"].value
             isValidIssueDate == IsBefore(ParseISO(v), today)
         IN  <<Check("issueDate", isValidIssueDate,
                     IF isValidIssueDate THEN <<"Document issued on ">> \o v
                     ELSE <<"Issue date is in the future">>)>>

\* 3. name matching check
NameChecks(fs, cl) ==
    IF ~(cl.name # <<>> /\ (HasValue(fs, "fullName") \/ HasValue(fs, "firstName")))
    THEN <<>>
    ELSE LET raw == IF HasValue(fs, "fullName") THEN fs["fullName"].value
                    ELSE ValueOrEmpty(fs, "firstName") \o <<" ">>
                         \o ValueOrEmpty(fs, "lastName")
             extractedName == ToLowerCase(Trim(raw))
             applicantName == ToLowerCase(Trim(cl.name))
             namesMatch ==
                 \/ Includes(extractedName, applicantName)
                 \/ Includes(applicantName, extractedName)
                 \/ FracGtSevenTenths(calculateSimilarity(extractedName, applicantName))
         IN  <<Check("name", namesMatch,
                     IF namesMatch THEN <<"Name matches application">>
                     ELSE <<"Name mismatch: Document shows \"">>
                          \o (IF HasValue(fs, "fullName") THEN fs["fullName"].value
                              ELSE extractedName)
                          \o <<"\", application shows \"">> \o cl.name \o <<"\"">>)>>

\* the date-of-birth rule with an upper age bound of 120 inclusive
DateOfBirthChecks_Upto120(fs, cl, today) ==
    IF ~(cl.dateOfBirth # <<>> /\ HasValue(fs, "dateOfBirth")) THEN <<>>
    ELSE LET v == fs["dateOfBirth"].value
             dobMatch == cl.dateOfBirth = v
             age == DifferenceInYears(today, ParseISO(v))
             ageOk == NumGe(age, Num(18)) /\ ~NumGt(age, Num(120))
         IN  <<Check("dateOfBirth", dobMatch, <<"Date of birth compared">>),
               Check("age", ageOk, <<"Applicant age checked">>)>>

\* 4. date of birth check, then age validation
DateOfBirthChecks(fs, cl, today) ==
    IF ~(cl.dateOfBirth # <<>> /\ HasValue(fs, "dateOfBirth")) THEN <<>>
    ELSE LET v == fs["dateOfBirth"].value
             dobMatch == cl.dateOfBirth = v
             age == DifferenceInYears(today, ParseISO(v))
             ageOk == NumGe(age, Num(18)) /\ NumLt(age, Num(120))
         IN  <<Check("dateOfBirth", dobMatch,
                     IF dobMatch THEN <<"Date of birth matches application">>
                     ELSE <<"DOB mismatch: Document shows \"">> \o v
                          \o <<"\", application shows \"">> \o cl.dateOfBirth
                          \o <<"\"">>),
               Check("age", ageOk,
                     IF ageOk THEN <<"Applicant age: ">> \o NumText(age) \o <<" years">>
                     ELSE IF NumLt(age, Num(18))
                          THEN <<"Applicant is under 18 - may require guardian">>
                          ELSE <<"Invalid age calculated">>)>>

\* the document-number rule failing a document that shows no number
DocumentNumberChecks_MissingFails(fs, cl) ==
    IF cl.passportNumber = <<>> THEN <<>>
    ELSE LET v == ValueOrEmpty(fs, "documentNumber")
             numberMatch == Trim(ToUpperCase(cl.passportNumber)) = Trim(ToUpperCase(v))
         IN  <<Check("documentNumber", numberMatch, <<"Document number compared">>)>>

\* 5. passport/document number check
DocumentNumberChecks(fs, cl) ==
    IF ~(cl.passportNumber # <<>> /\ HasValue(fs, "documentNumber")) THEN <<>>
    ELSE LET v == fs["documentNumber"].value
             numberMatch == Trim(ToUpperCase(cl.passportNumber)) = Trim(ToUpperCase(v))
         IN  <<Check("documentNumber", numberMatch,
                     IF numberMatch THEN <<"Document number matches application">>
                     ELSE <<"Document number mismatch: Document shows \"">> \o v
                          \o <<"\", application shows \"">> \o cl.passportNumber
                          \o <<"\"">>)>>

\* 6. nationality check
NationalityChecks(fs, cl) ==
    IF ~(cl.nationality # <<>> /\ HasValue(fs, "nationality")) THEN <<>>
    ELSE LET v == fs["nationality"].value
             nationalityMatch == Trim(ToUpperCase(cl.nationality)) = Trim(ToUpperCase(v))
         IN  <<Check("nationality", nationalityMatch,
                     IF nationalityMatch THEN <<"Nationality matches application">>
                     ELSE <<"Nationality mismatch: Document shows \"">> \o v
                          \o <<"\", application shows \"">> \o cl.nationality
                          \o <<"\"">>)>>

\* 7. MRZ check
MrzChecks(fs) ==
    IF ~(HasValue(fs, "mrzLine1") /\ HasValue(fs, "mrzLine2")) THEN <<>>
    ELSE LET mrzValid == validateMRZ(fs["mrzLine1"].value, fs["mrzLine2"].value,
                                     ValueOrEmpty(fs, "mrzLine3"))
         IN  <<Check("mrzChecksum", mrzValid,
                     IF mrzValid THEN <<"MRZ checksum validation passed">>
                     ELSE <<"MRZ checksum validation failed - possible forgery or OCR error">>)>>

ValidDocumentTypes ==
    { <<"p","a","s","s","p","o","r","t">>, <<"v","i","s","a">>,
      <<"n","a","t","i","o","n","a","l","I","d">>,
      <<"d","r","i","v","i","n","g","L","i","c","e","n","s","e">>,
      <<"n","a","t","i","o","n","a","l","i","d">>,
      <<"d","r","i","v","i","n","g","l","i","c","e","n","s","e">> }

\* 8. document type validation
DocumentTypeChecks(fs) ==
    IF ~HasValue(fs, "documentType") THEN <<>>
    ELSE LET v == fs["documentType"].value
             isValidType == ToLowerCase(v) \in ValidDocumentTypes
         IN  <<Check("documentType", isValidType,
                     IF isValidType THEN <<"Document type: ">> \o v
                     ELSE <<"Unrecognized document type">>)>>

\* the keys of the present fields with confidence <= 60
lowConfidenceFields_Inclusive(fs) ==
    SelectSeq(FieldOrder, LAMBDA k : fs[k].present /\ fs[k].confidence <= 60)

\* the keys of the present fields with confidence < 60, in entry order
lowConfidenceFields(fs) ==
    SelectSeq(FieldOrder, LAMBDA k : fs[k].present /\ fs[k].confidence < 60)

\* the confidence rule failing a mapping that has no field at all
ConfidenceChecks_EmptyFails(fs) ==
    IF Len(lowConfidenceFields(fs)) > 0 \/ \A k \in FieldNames : ~fs[k].present
    THEN <<Check("confidence", FALSE, <<"Low confidence in fields">>)>>
    ELSE <<Check("confidence", TRUE,
                 <<"All extracted fields have acceptable confidence scores">>)>>

\* 9. confidence score check
ConfidenceChecks(fs) ==
    LET low == lowConfidenceFields(fs)
    IN  IF Len(low) > 0
        THEN <<Check("confidence", FALSE,
                     <<"Low confidence in fields: ">>
                     \o Join([i \in 1..Len(low) |-> <<low[i]>>], <<", ">>)
                     \o <<" - manual review recommended">>)>>
        ELSE <<Check("confidence", TRUE,
                     <<"All extracted fields have acceptable confidence scores">>)>>

validateDocument(fs, cl, today) ==
    ExpiryChecks(fs, today) \o IssueDateChecks(fs, today) \o NameChecks(fs, cl)
    \o DateOfBirthChecks(fs, cl, today) \o DocumentNumberChecks(fs, cl)
    \o NationalityChecks(fs, cl) \o MrzChecks(fs) \o DocumentTypeChecks(fs)
    \o ConfidenceChecks(fs)

-----------------------------------------------------------------------------
(* Eligibility policy table *)

Tourist == <<"t","o","u","r","i","s","t">>
Business == <<"b","u","s","i","n","e","s","s">>
Student == <<"s","t","u","d","e","n","t">>
Work == <<"w","o","r","k">>
Transit == <<"t","r","a","n","s","i","t">>

\* a number-valued property of a policy is Num(n), or NaN when the property
\* is undefined (undefined is falsy, and NaN in every comparison)
Policy(vt, minAge, maxAge, months) ==
    [visaType |-> vt, minAge |-> minAge, maxAge |-> maxAge,
     minPassportValidity |-> months,
     hasAllowedNationalities |-> FALSE, allowedNationalities |-> {},
     hasDeniedNationalities |-> FALSE, deniedNationalities |-> {},
     requiresValidPassport |-> TRUE]

eligibilityPolicies ==
    [k \in {Tourist, Business, Student, Work, Transit} |->
        CASE k = Tourist  -> Policy(Tourist, Num(18), NaN, Num(6))
          [] k = Business -> Policy(Business, Num(21), NaN, Num(6))
          [] k = Student  -> Policy(Student, Num(16), Num(35), Num(12))
          [] k = Work     -> Policy(Work, Num(18), Num(65), Num(12))
          [] k = Transit  -> Policy(Transit, Num(18), NaN, Num(3))]

\* eligibilityPolicies is an object literal: besides its five own keys, the
\* keys it inherits from Object.prototype are found by a property read too.
\* The lower-case ones are "constructor" (the function Object) and
\* "__proto__" (Object.prototype): truthy objects without any policy property
InheritedKeys ==
    { <<"c","o","n","s","t","r","u","c","t","o","r">>,
      <<"_","_","p","r","o","t","o","_","_">> }

InheritedObject ==
    [visaType |-> <<>>, minAge |-> NaN, maxAge |-> NaN,
     minPassportValidity |-> NaN,
     hasAllowedNationalities |-> FALSE, allowedNationalities |-> {},
     hasDeniedNationalities |-> FALSE, deniedNationalities |-> {},
     requiresValidPassport |-> FALSE]

\* the requested type folded to lower case
RequestedVisaType_LowerCased(cl) ==
    ToLowerCase(IF cl.intendedVisaType # <<>> THEN cl.intendedVisaType ELSE Tourist)

\* applicantData.intendedVisaType || 'tourist'
RequestedVisaType(cl) ==
    IF cl.intendedVisaType # <<>> THEN cl.intendedVisaType ELSE Tourist

\* eligibilityPolicies[visaType.toLowerCase()] || eligibilityPolicies.tourist
SelectPolicy(visaType) ==
    LET key == ToLowerCase(visaType)
    IN  IF key \in DOMAIN eligibilityPolicies THEN eligibilityPolicies[key]
        ELSE IF key \in InheritedKeys THEN InheritedObject
        ELSE eligibilityPolicies[Tourist]

-----------------------------------------------------------------------------
(* Eligibility engine *)

CriticalFields == {"expiryDate", "documentNumber", "dateOfBirth", "name"}

Result(e, r, vt) == [eligible |-> e, reason |-> r, visaType |-> vt]

NoResult == Result(FALSE, <<>>, <<>>)

\* criticalFailures without the filter on the field
criticalFailures_AnyField(cs) == SelectSeq(cs, LAMBDA c : ~c.passed)

criticalFailures(cs) ==
    SelectSeq(cs, LAMBDA c : c.field \in CriticalFields /\ ~c.passed)

lowConfidenceCount(fs) ==
    Cardinality({ k \in FieldNames : fs[k].present /\ fs[k].confidence < 60 })

passedCount(cs) == Len(SelectSeq(cs, LAMBDA c : c.passed))

\* passRate <= 0.7
PassRateLow_Inclusive(cs) == Len(cs) > 0 /\ 10 * passedCount(cs) <= 7 * Len(cs)

\* passRate < 0.7, with passRate = passed / total, which is NaN for 0 / 0
PassRateLow(cs) == Len(cs) > 0 /\ 10 * passedCount(cs) < 7 * Len(cs)

\* Math.round(passRate * 100), only rendered when passRate < 0.7
PassRatePercent(cs) == (200 * passedCount(cs) + Len(cs)) \div (2 * Len(cs))

RejectCritical(cs, visaType) ==
    Result(FALSE,
           <<"Critical validation failures: ">>
           \o Join([i \in 1..Len(criticalFailures(cs)) |->
                        criticalFailures(cs)[i].message], <<"; ">>),
           visaType)

RejectMinAge(age, policy, visaType) ==
    Result(FALSE,
           <<"Applicant age (">> \o NumText(age) \o <<") is below ">>
           \o <<"minimum age requirement (">> \o NumText(policy.minAge) \o <<")">>
           \o <<" for ">> \o visaType \o <<" visa">>,
           visaType)

RejectMaxAge(age, policy, visaType) ==
    Result(FALSE,
           <<"Applicant age (">> \o NumText(age) \o <<") exceeds ">>
           \o <<"maximum age requirement (">> \o NumText(policy.maxAge) \o <<")">>
           \o <<" for ">> \o visaType \o <<" visa">>,
           visaType)

RejectValidity(fs, policy, visaType) ==
    Result(FALSE,
           <<"Passport must be valid for at least ">>
           \o NumText(policy.minPassportValidity)
           \o <<" months from today. Current expiry: ">> \o fs["expiryDate"].value,
           visaType)

RejectNotAllowed(fs, visaType) ==
    Result(FALSE,
           <<"Nationality ">> \o ToUpperCase(fs["nationality"].value)
           \o <<" is not eligible for ">> \o visaType \o <<" visa">>,
           visaType)

RejectDenied(fs, visaType) ==
    Result(FALSE,
           <<"Nationality ">> \o ToUpperCase(fs["nationality"].value)
           \o <<" is not eligible for ">> \o visaType
           \o <<" visa due to policy restrictions">>,
           visaType)

RejectQuality(visaType) ==
    Result(FALSE,
           <<"Document quality insufficient - too many low-confidence field extractions. Manual review required.">>,
           visaType)

RejectPassRate(cs, visaType) ==
    Result(FALSE,
           <<"Insufficient validation pass rate (", ToString(PassRatePercent(cs)),
             "%). Multiple checks failed.">>,
           visaType)

Accept(visaType) ==
    Result(TRUE,
           <<"Applicant meets all eligibility requirements for ">> \o visaType
           \o <<" visa. Document is valid and all required fields verified.">>,
           visaType)

\* the age computed by the age rule (only read when the DOB has a value)
AssessedAge(fs, today) ==
    DifferenceInYears(today, ParseISO(fs["dateOfBirth"].value))

\* policy.requiresValidPassport && criticalFailures.length > 0
HasCriticalFailure(policy, cs) ==
    policy.requiresValidPassport /\ Len(criticalFailures(cs)) > 0

\* age <= policy.minAge
BelowMinAge_Inclusive(age, policy) ==
    ~age.nan /\ ~policy.minAge.nan /\ age.v <= policy.minAge.v

\* age < policy.minAge
BelowMinAge(age, policy) == NumLt(age, policy.minAge)

\* policy.maxAge && age > policy.maxAge
AboveMaxAge(age, policy) ==
    ~policy.maxAge.nan /\ policy.maxAge.v # 0 /\ NumGt(age, policy.maxAge)

\* the threshold of the validity rule
requiredValidUntil(policy, today) == AddMonths(today, policy.minPassportValidity)

\* expiryDate <= requiredValidUntil
ExpiresTooSoon_Inclusive(fs, policy, today) ==
    LET e == ParseISO(fs["expiryDate"].value)
        u == requiredValidUntil(policy, today)
    IN  e.valid /\ u.valid /\ TimeKey(e) <= TimeKey(u)

\* expiryDate < requiredValidUntil
ExpiresTooSoon(fs, policy, today) ==
    DateLt(ParseISO(fs["expiryDate"].value), requiredValidUntil(policy, today))

\* lowConfidenceCount > 3
QualityInsufficient(fs) == lowConfidenceCount(fs) > 3

\* assessEligibility with the pass-rate gate ahead of the validity rule
assessEligibility_RateFirst(fs, cl, cs, today) ==
    LET visaType == RequestedVisaType(cl)
        policy == SelectPolicy(visaType)
        age == AssessedAge(fs, today)
    IN  IF HasCriticalFailure(policy, cs)
        THEN RejectCritical(cs, visaType)
        ELSE IF HasValue(fs, "dateOfBirth") /\ BelowMinAge(age, policy)
        THEN RejectMinAge(age, policy, visaType)
        ELSE IF HasValue(fs, "dateOfBirth") /\ AboveMaxAge(age, policy)
        THEN RejectMaxAge(age, policy, visaType)
        ELSE IF PassRateLow(cs)
        THEN RejectPassRate(cs, visaType)
        ELSE IF HasValue(fs, "expiryDate") /\ ExpiresTooSoon(fs, policy, today)
        THEN RejectValidity(fs, policy, visaType)
        ELSE IF QualityInsufficient(fs)
        THEN RejectQuality(visaType)
        ELSE Accept(visaType)

\* The catch blocks of the age rule and of the validity rule are never
\* entered: parseISO, differenceInYears and addMonths do not throw, an
\* unparseable date makes every comparison of the try block false.
assessEligibility(fs, cl, cs, today) ==
    LET visaType == RequestedVisaType(cl)
        policy == SelectPolicy(visaType)
        age == AssessedAge(fs, today)
    IN  IF HasCriticalFailure(policy, cs)
        THEN RejectCritical(cs, visaType)
        ELSE IF HasValue(fs, "dateOfBirth") /\ BelowMinAge(age, policy)
        THEN RejectMinAge(age, policy, visaType)
        ELSE IF HasValue(fs, "dateOfBirth") /\ AboveMaxAge(age, policy)
        THEN RejectMaxAge(age, policy, visaType)
        ELSE IF HasValue(fs, "expiryDate") /\ ExpiresTooSoon(fs, policy, today)
        THEN RejectValidity(fs, policy, visaType)
        ELSE IF /\ policy.hasAllowedNationalities /\ HasValue(fs, "nationality")
                /\ ToUpperCase(fs["nationality"].value) \notin policy.allowedNationalities
        THEN RejectNotAllowed(fs, visaType)
        ELSE IF /\ policy.hasDeniedNationalities /\ HasValue(fs, "nationality")
                /\ ToUpperCase(fs["nationality"].value) \in policy.deniedNationalities
        THEN RejectDenied(fs, visaType)
        ELSE IF QualityInsufficient(fs)
        THEN RejectQuality(visaType)
        ELSE IF PassRateLow(cs)
        THEN RejectPassRate(cs, visaType)
        ELSE Accept(visaType)

-----------------------------------------------------------------------------
(* Vision response parsing: parseVisionAnalysis and estimateConfidence.    *)
(* The answer of the vision model is [kind, entries]: kind "threw" when    *)
(* the call rejects, "noJson" for a text without {...}, "badJson" when     *)
(* JSON.parse throws on the match, "json" for a parsed object, whose       *)
(* entries map a key to [form |-> "none"] (no key, null or ''), to         *)
(* [form |-> "object", value, confidence] or to [form |-> "flat", value].  *)

\* the characters of the keys of the mapping and of the check field names
NameChars ==
    [documentType |-> <<"d","o","c","u","m","e","n","t","T","y","p","e">>,
     documentNumber |-> <<"d","o","c","u","m","e","n","t","N","u","m","b","e","r">>,
     firstName |-> <<"f","i","r","s","t","N","a","m","e">>,
     lastName |-> <<"l","a","s","t","N","a","m","e">>,
     fullName |-> <<"f","u","l","l","N","a","m","e">>,
     dateOfBirth |-> <<"d","a","t","e","O","f","B","i","r","t","h">>,
     nationality |-> <<"n","a","t","i","o","n","a","l","i","t","y">>,
     issueDate |-> <<"i","s","s","u","e","D","a","t","e">>,
     expiryDate |-> <<"e","x","p","i","r","y","D","a","t","e">>,
     mrzLine1 |-> <<"m","r","z","L","i","n","e","1">>,
     mrzLine2 |-> <<"m","r","z","L","i","n","e","2">>,
     mrzLine3 |-> <<"m","r","z","L","i","n","e","3">>,
     name |-> <<"n","a","m","e">>,
     age |-> <<"a","g","e">>,
     mrzChecksum |-> <<"m","r","z","C","h","e","c","k","s","u","m">>,
     confidence |-> <<"c","o","n","f","i","d","e","n","c","e">>]

\* /^\d{4}-\d{2}-\d{2}$/.test(value)
dateRegex(value) ==
    /\ Len(value) = 10
    /\ \A i \in {1, 2, 3, 4, 6, 7, 9, 10} : IsDigit(value[i])
    /\ value[5] = "-" /\ value[8] = "-"

estimateConfidence(fieldName, value) ==
    IF Trim(value) = <<>> THEN 0
    ELSE LET baseConfidence ==
                 IF fieldName \in {"documentNumber", "dateOfBirth", "expiryDate",
                                   "nationality"}
                 THEN 85 ELSE 80
         IN  IF \/ Includes(NameChars[fieldName], <<"D","a","t","e">>)
                \/ Includes(NameChars[fieldName], <<"d","a","t","e">>)
             THEN IF dateRegex(value) THEN baseConfidence ELSE baseConfidence - 20
             ELSE IF Includes(NameChars[fieldName], <<"m","r","z">>)
             THEN IF Len(value) > 20 THEN baseConfidence ELSE baseConfidence - 30
             ELSE baseConfidence

EmptyMapping == [k \in FieldNames |-> AbsentField]

\* a response that is no JSON object, or one JSON.parse rejects, throws
\* inside the try block; the catch block returns the empty mapping
parseVisionAnalysis(visionResponse) ==
    IF visionResponse.kind # "json" THEN EmptyMapping
    ELSE [k \in FieldNames |->
            LET e == visionResponse.entries[k]
            IN  IF e.form = "object" THEN Field(e.value, e.confidence)
                ELSE IF e.form = "flat" /\ e.value # <<>>
                THEN Field(e.value, estimateConfidence(k, e.value))
                ELSE AbsentField]

-----------------------------------------------------------------------------
(* Result aggregator: calculateOverallConfidence, generateRecommendations, *)
(* generateSummary.  A quotient is kept as the fraction [num, den].        *)

RECURSIVE Sum(_)
Sum(s) == IF s = <<>> THEN 0 ELSE Head(s) + Sum(Tail(s))

\* Math.round: the nearest integer, a half rounded up
MathRound(q) == (2 * q.num + q.den) \div (2 * q.den)

\* avgFieldConfidence * 0.6 + validationScore * 0.4 is computed in doubles.
\* For integer confidences 1..100 of at most 12 fields and at most 11
\* checks the rounded sum is the rounded exact value, but for the sums
\* below: the average is a/6 with a in ShortProducts, whose product with
\* 0.6 falls one unit in the last place short of a half-integer; the
\* shortfall survives adding an integer validationScore * 0.4 as long as
\* the sum stays under the next power of two, and Math.round then rounds
\* down what is exactly a half.
ShortProducts ==
    {35, 55, 125, 155, 205, 235, 265, 295, 395, 425, 455, 485, 515, 545, 575}

\* ten times the power of two that follows a / 10
BinadeEnd(a) ==
    IF a < 40 THEN 40 ELSE IF a < 80 THEN 80 ELSE IF a < 160 THEN 160
    ELSE IF a < 320 THEN 320 ELSE 640

FallsShortOfHalf(avg, score) ==
    /\ (6 * avg.num) % avg.den = 0
    /\ (2 * score.num) % score.den = 0
    /\ LET a == (6 * avg.num) \div avg.den
           b == (2 * score.num) \div score.den
       IN  /\ a \in ShortProducts
           /\ b % 5 = 0
           /\ a + 2 * b < BinadeEnd(a)

\* Math.round(avg * 0.6 + score * 0.4)
RoundWeighted(avg, score) ==
    MathRound([num |-> 6 * avg.num * score.den + 4 * score.num * avg.den,
               den |-> 10 * avg.den * score.den])
    - (IF FallsShortOfHalf(avg, score) THEN 1 ELSE 0)

\* the confidences of the entries of the mapping, in entry order
EntryConfidences(fs) ==
    LET keys == SelectSeq(FieldOrder, LAMBDA k : fs[k].present)
    IN  [i \in 1..Len(keys) |-> fs[keys[i]].confidence]

\* the overall confidence with the zero confidences kept in the mean
calculateOverallConfidence_ZerosCounted(fs, cs) ==
    LET fieldConfidences == EntryConfidences(fs)
        avgFieldConfidence ==
            IF Sum(fieldConfidences) > 0
            THEN [num |-> Sum(fieldConfidences), den |-> Len(fieldConfidences)]
            ELSE [num |-> 50, den |-> 1]
        passedChecks == Len(SelectSeq(cs, LAMBDA c : c.passed))
        validationScore ==
            IF Len(cs) > 0 THEN [num |-> passedChecks * 100, den |-> Len(cs)]
            ELSE [num |-> 70, den |-> 1]
    IN  RoundWeighted(avgFieldConfidence, validationScore)

calculateOverallConfidence(fs, cs) ==
    LET fieldConfidences == SelectSeq(EntryConfidences(fs), LAMBDA c : c > 0)
        avgFieldConfidence ==
            IF Len(fieldConfidences) > 0
            THEN [num |-> Sum(fieldConfidences), den |-> Len(fieldConfidences)]
            ELSE [num |-> 50, den |-> 1]
        passedChecks == Len(SelectSeq(cs, LAMBDA c : c.passed))
        validationScore ==
            IF Len(cs) > 0 THEN [num |-> passedChecks * 100, den |-> Len(cs)]
            ELSE [num |-> 70, den |-> 1]
        overall == RoundWeighted(avgFieldConfidence, validationScore)
        floored == IF overall > 0 THEN overall ELSE 0
    IN  IF floored < 100 THEN floored ELSE 100

\* failedChecks.some(c => c.field.includes(a) || c.field.includes(b))
SomeFieldIncludes(failedChecks, a, b) ==
    \E i \in 1..Len(failedChecks) :
        \/ Includes(NameChars[failedChecks[i].field], a)
        \/ Includes(NameChars[failedChecks[i].field], b)

generateRecommendations(cs, eligibility) ==
    LET failedChecks == SelectSeq(cs, LAMBDA c : ~c.passed)
    IN  IF Len(failedChecks) = 0 /\ eligibility.eligible
        THEN <<"Document appears valid and applicant is eligible",
               "Proceed with visa application processing">>
        ELSE (IF SomeFieldIncludes(failedChecks, <<"e","x","p","i","r","y">>,
                                   <<"E","x","p","i","r","y">>)
              THEN <<"Document has expired - request renewed document">>
              ELSE <<>>)
             \o (IF SomeFieldIncludes(failedChecks, <<"M","R","Z">>,
                                      <<"c","h","e","c","k","s","u","m">>)
                 THEN <<"MRZ validation failed - verify document authenticity">>
                 ELSE <<>>)
             \o (IF SomeFieldIncludes(failedChecks, <<"n","a","m","e">>,
                                      <<"N","a","m","e">>)
                 THEN <<"Name mismatch detected - request clarification from applicant">>
                 ELSE <<>>)
             \o (IF ~eligibility.eligible
                 THEN <<"Applicant not eligible for requested visa type",
                        "Contact applicant for additional documentation or alternate visa type">>
                 ELSE <<>>)
             \o (IF Len(failedChecks) > 3
                 THEN <<"Multiple validation failures - manual review required">>
                 ELSE <<>>)

\* the summary without its first branch
generateSummary_NeverSuccessful(fs, cs, eligibility) ==
    IF 10 * Len(SelectSeq(cs, LAMBDA c : c.passed)) >= 7 * Len(cs)
    THEN <<"Document partially validated. ", "Manual review recommended.">>
    ELSE <<"Document validation concerns. ", "Additional verification required.">>

generateSummary(fs, cs, eligibility) ==
    LET docType == IF HasValue(fs, "documentType") THEN fs["documentType"].value
                   ELSE <<"document">>
        docNumber == IF HasValue(fs, "documentNumber") THEN fs["documentNumber"].value
                     ELSE <<"unknown">>
        name == IF HasValue(fs, "fullName") THEN fs["fullName"].value
                ELSE IF HasValue(fs, "firstName") THEN fs["firstName"].value
                ELSE <<"unknown">>
        passedChecks == Len(SelectSeq(cs, LAMBDA c : c.passed))
        totalChecks == Len(cs)
        subject == docType \o <<" #">> \o docNumber \o <<" for ">> \o name
    IN  IF passedChecks = totalChecks /\ eligibility.eligible
        THEN <<"Document verification successful. ">> \o subject
             \o <<" is valid and applicant is eligible for ">>
             \o (IF eligibility.visaType # <<>> THEN eligibility.visaType
                 ELSE <<"requested">>)
             \o <<" visa. All validation checks passed (", ToString(passedChecks),
                  "/", ToString(totalChecks), ").">>
        ELSE IF 10 * passedChecks >= 7 * totalChecks
        THEN <<"Document partially validated. ">> \o subject
             \o <<" passed ", ToString(passedChecks), " of ", ToString(totalChecks),
                  " checks. ",
                  IF eligibility.eligible THEN "Applicant is eligible"
                  ELSE "Applicant eligibility unclear",
                  ". Manual review recommended.">>
        ELSE <<"Document validation concerns. ">> \o subject
             \o <<" failed multiple validation checks (",
                  ToString(totalChecks - passedChecks), " failures). ">>
             \o (IF eligibility.eligible THEN <<>>
                 ELSE <<"Applicant not eligible. ">>)
             \o <<"Additional verification required.">>

\* what the endpoint answers: nothing yet, the VerificationResult (whose
\* extractedFields, validationChecks and eligibilityAssessment are fields,
\* checks and elig), or an error
NoAnswer ==
    [status |-> "none", overallConfidence |-> 0, recommendedActions |-> <<>>,
     summary |-> <<>>, error |-> <<>>]

VerificationResult(overall, actions, summary) ==
    [status |-> "ok", overallConfidence |-> overall,
     recommendedActions |-> actions, summary |-> summary, error |-> <<>>]

ErrorAnswer(message) ==
    [status |-> "error", overallConfidence |-> 0, recommendedActions |-> <<>>,
     summary |-> <<>>, error |-> message]

-----------------------------------------------------------------------------
(* Inputs of the model: the clock values, the extracted values and the     *)
(* applicant's values the behaviours start from.  An option <<>> for a     *)
(* field leaves the key out of the mapping.                                *)

\* 2026-11-02 during the day, 2026-11-02 at midnight sharp, and the last
\* day of a month, 2026-08-31
Clocks == { MkDate(2026, 11, 2, 1), MkDate(2026, 11, 2, 0), MkDate(2026, 8, 31, 1) }

Midday == MkDate(2026, 11, 2, 1)

NotADate == <<"N","/","A">>
NoSuchDay == <<"2","0","3","0","-","0","2","-","3","0">>

\* expired; today; 3, 6 and 12 months after 2026-11-02; just after six
\* months from 2026-08-31; far away; and two strings that are no dates
ExpiryValues ==
    { <<"2","0","2","0","-","0","1","-","0","1">>,
      <<"2","0","2","6","-","1","1","-","0","2">>,
      <<"2","0","2","7","-","0","2","-","0","2">>,
      <<"2","0","2","7","-","0","5","-","0","2">>,
      <<"2","0","2","7","-","1","1","-","0","2">>,
      <<"2","0","2","7","-","0","3","-","0","1">>,
      <<"2","0","3","0","-","1","2","-","3","1">>,
      NotADate, NoSuchDay }

\* birthdays on 2 and 3 November: the ages 15/16, 17/18, 20/21, 35/36,
\* 65/66 and 119/120 on 2026-11-02; two ordinary dates; a date in the
\* future; and two strings that are no dates
BirthValues ==
    { <<"2","0","1","0","-","1","1","-","0","3">>,
      <<"2","0","1","0","-","1","1","-","0","2">>,
      <<"2","0","0","8","-","1","1","-","0","3">>,
      <<"2","0","0","8","-","1","1","-","0","2">>,
      <<"2","0","0","5","-","1","1","-","0","3">>,
      <<"2","0","0","5","-","1","1","-","0","2">>,
      <<"1","9","9","0","-","1","1","-","0","3">>,
      <<"1","9","9","0","-","1","1","-","0","2">>,
      <<"1","9","6","0","-","1","1","-","0","3">>,
      <<"1","9","6","0","-","1","1","-","0","2">>,
      <<"1","9","0","6","-","1","1","-","0","3">>,
      <<"1","9","0","6","-","1","1","-","0","2">>,
      <<"1","9","9","0","-","0","1","-","1","5">>,
      <<"1","9","8","5","-","0","5","-","0","5">>,
      <<"2","0","3","0","-","1","2","-","3","1">>,
      NotADate, NoSuchDay }

Born1990 == <<"1","9","9","0","-","0","1","-","1","5">>
Born1985 == <<"1","9","8","5","-","0","5","-","0","5">>
Seventeen == <<"2","0","0","8","-","1","1","-","0","3">>
Expires2030 == <<"2","0","3","0","-","1","2","-","3","1">>
ExpiresSoon == <<"2","0","2","7","-","0","2","-","0","2">>

\* 1990-01-15 spelled with a trailing space, and without the leading zero
Born1990Padded == Born1990 \o <<" ">>
Born1990Short == <<"1","9","9","0","-","1","-","1","5">>

IssueValues ==
    { <<"2","0","2","0","-","0","1","-","0","1">>, <<"2","0","3","0","-","1","2","-","3","1">>, NotADate }

JohnDoe == <<"J","o","h","n"," ","D","o","e">>
DocNumber == <<"A","1","2","3","4","5","6","7","8">>
Usa == <<"U","S","A">>
Passport == <<"p","a","s","s","p","o","r","t">>

\* requested visa types: the five keys, other letter cases, an unknown
\* type, no type at all, and a key inherited from Object.prototype
VisaTypes ==
    { Tourist, Business, Student, Work, Transit,
      <<"S","t","u","d","e","n","t">>, <<"W","O","R","K">>,
      <<"d","i","p","l","o","m","a","t","i","c">>, <<>>,
      <<"c","o","n","s","t","r","u","c","t","o","r">> }

\* the other fields of the document: none, or those of a passport
RestNone == [k \in FieldNames |-> <<>>]

RestPassport ==
    [k \in FieldNames |->
        CASE k = "fullName" -> JohnDoe
          [] k = "documentNumber" -> DocNumber
          [] k = "nationality" -> Usa
          [] k = "documentType" -> Passport
          [] OTHER -> <<>>]

\* the mapping with the given values, every present field at confidence conf
MkFields(dob, exp, iss, rest, conf) ==
    [k \in FieldNames |->
        LET v == CASE k = "dateOfBirth" -> dob
                   [] k = "expiryDate" -> exp
                   [] k = "issueDate" -> iss
                   [] OTHER -> rest[k]
        IN  IF v = <<>> THEN AbsentField ELSE Field(v, conf)]

MkClaim(dob, vt) ==
    [name |-> JohnDoe, dateOfBirth |-> dob, passportNumber |-> DocNumber,
     nationality |-> Usa, intendedVisaType |-> vt]

\* checks handed to assessEligibility by a direct caller: any sequence of at
\* most MaxChecks checks of the pool, or a run of passed checks followed by a
\* run of failed non-critical ones
CheckPool ==
    { Check(f, p, <<f, IF p THEN " ok" ELSE " failed">>) :
        f \in CriticalFields \cup {"age"}, p \in BOOLEAN }

ShortCheckSeqs == UNION { [1..n -> CheckPool] : n \in 0..MaxChecks }

PassedCheck == Check("confidence", TRUE, <<"confidence ok">>)
FailedCheck == Check("age", FALSE, <<"age failed">>)

Run(p, f) == [i \in 1..(p + f) |-> IF i <= p THEN PassedCheck ELSE FailedCheck]

RunCheckSeqs == { Run(p, f) : p \in 0..MaxPassed, f \in 0..3 }

-----------------------------------------------------------------------------
(* The caller: verifyDocument runs the validator, then the eligibility     *)
(* engine, on one request (pc = "start"); a direct caller of the exported  *)
(* assessEligibility hands it any check sequence (pc = "call").            *)

InitRequest ==
    /\ pc = "start"
    /\ \E clock \in Clocks,
          dob \in {<<>>, Born1990, Born1985, Seventeen, NotADate},
          exp \in ExpiryValues \cup {<<>>},
          cdob \in {<<>>, Born1990, NotADate},
          vt \in {Tourist, Student, <<>>},
          conf \in {95, 59} :
          /\ now = clock
          /\ fields = MkFields(dob, exp, <<>>, RestPassport, conf)
          /\ claim = MkClaim(cdob, vt)

InitRequestIssue ==
    /\ pc = "start"
    /\ \E clock \in Clocks, iss \in IssueValues, exp \in {<<>>, NotADate},
          rest \in {RestNone, RestPassport}, conf \in {95, 60, 59} :
          /\ now = clock
          /\ fields = MkFields(<<>>, exp, iss, rest, conf)
          /\ claim = MkClaim(Born1990, Tourist)

InitCallChecks ==
    /\ pc = "call"
    /\ now = Midday
    /\ \E cs \in ShortCheckSeqs, dob \in {<<>>, Seventeen},
          exp \in {<<>>, ExpiresSoon}, vt \in VisaTypes :
          /\ checks = cs
          /\ fields = MkFields(dob, exp, <<>>, RestNone, 95)
          /\ claim = MkClaim(dob, vt)

InitCallDates ==
    /\ pc = "call"
    /\ \E clock \in Clocks, cs \in {<<>>, <<PassedCheck>>},
          dob \in BirthValues \cup {<<>>}, exp \in ExpiryValues \cup {<<>>},
          vt \in VisaTypes :
          /\ now = clock
          /\ checks = cs
          /\ fields = MkFields(dob, exp, <<>>, RestNone, 95)
          /\ claim = MkClaim(dob, vt)

InitCallRate ==
    /\ pc = "call"
    /\ now = Midday
    /\ \E cs \in RunCheckSeqs \cup {<<Check("name", FALSE, <<"name failed">>)>>},
          dob \in {<<>>, Seventeen, Born1990},
          exp \in {<<>>, ExpiresSoon, Expires2030},
          vt \in {Tourist, Student, <<"d","i","p","l","o","m","a","t","i","c">>, <<"c","o","n","s","t","r","u","c","t","o","r">>},
          rest \in {RestNone, RestPassport}, conf \in {95, 60, 59} :
          /\ checks = cs
          /\ fields = MkFields(dob, exp, <<>>, rest, conf)
          /\ claim = MkClaim(dob, vt)

\* requests whose document shows each birthday of the model, the applicant
\* stating none, the same string, or another spelling of 1990-01-15
InitRequestBirth ==
    /\ pc = "start"
    /\ \E clock \in Clocks, dob \in BirthValues \cup {<<>>} :
       \E cdob \in {<<>>, dob, Born1990, Born1990Padded, Born1990Short} :
          /\ now = clock
          /\ fields = MkFields(dob, Expires2030, <<>>, RestPassport, 95)
          /\ claim = MkClaim(cdob, Tourist)

AnnaSmith == <<"A","n","n","a"," ","S","m","i","t","h">>
Anna == <<"A","n","n","a">>
Smith == <<"S","m","i","t","h">>
Blank == <<" "," ">>

\* the name fields of the document: fullName, firstName, lastName
ExtractedNames ==
    { <<AnnaSmith, <<>>, <<>>>>, <<<<>>, Anna, Smith>>, <<<<>>, Anna, <<>>>>,
      <<<<" "," ","A","N","N","A"," ","S","M","I","T","H"," ">>, <<>>, <<>>>>,
      <<<<>>, <<>>, Smith>>, <<AnnaSmith, <<"B","o","b">>, <<"L","e","e">>>>,
      <<Blank, <<>>, <<>>>>, <<<<>>, <<>>, <<>>>> }

\* the name stated by the applicant: none, the same, other letter cases and
\* spaces, one and three letters changed, a part, a longer, another, a blank
ClaimedNames ==
    { <<>>, AnnaSmith, <<"a","n","n","a"," ","s","m","i","t","h"," ">>,
      <<"A","n","n","a"," ","S","m","y","t","h">>,
      <<"A","n","n","e"," ","S","m","y","t","e">>,
      Anna, <<"D","r"," ","A","n","n","a"," ","S","m","i","t","h">>,
      <<"B","o","b"," ","L","e","e">>, Blank }

InitRequestNames ==
    /\ pc = "start"
    /\ now = Midday
    /\ \E en \in ExtractedNames, cn \in ClaimedNames :
          /\ fields = MkFields(Born1990, Expires2030, <<>>,
                               [RestPassport EXCEPT !["fullName"] = en[1],
                                                    !["firstName"] = en[2],
                                                    !["lastName"] = en[3]], 95)
          /\ claim = [MkClaim(Born1990, Tourist) EXCEPT !.name = cn]

Repeat(ch, n) == [i \in 1..n |-> ch]

\* machine-readable lines: 44 and 30 characters, each also with one
\* lower-case letter, and a line of 10 characters
TD3Line == <<"P","<","U","S","A","D","O","E","<","<","J","O","H","N">> \o Repeat("<", 30)
TD3LineLower == <<"P","<","U","S","A","D","o","E","<","<","J","O","H","N">> \o Repeat("<", 30)
TD1Line == <<"I","<","U","S","A","1","2","3","4","5">> \o Repeat("<", 20)
TD1LineLower == <<"I","<","U","S","A","1","2","3","4","x">> \o Repeat("<", 20)
ShortLine == <<"P","<","U","S","A","d","o","e","<","<">>

InitRequestMrz ==
    /\ pc = "start"
    /\ now = Midday
    /\ \E l1 \in {<<>>, TD3Line, TD3LineLower, TD1Line, TD1LineLower, ShortLine},
          l2 \in {<<>>, TD3Line, TD3LineLower, TD1Line, TD1LineLower, ShortLine},
          l3 \in {<<>>, TD1Line, TD1LineLower, TD3Line} :
          /\ fields = MkFields(Born1990, Expires2030, <<>>,
                               [RestPassport EXCEPT !["mrzLine1"] = l1,
                                                    !["mrzLine2"] = l2,
                                                    !["mrzLine3"] = l3], 95)
          /\ claim = MkClaim(Born1990, Tourist)

\* a complete passport, and the requests made of a few of its fields or of
\* nearly all of them, the applicant stating any part of the claim
FullDocument ==
    [k \in FieldNames |->
        CASE k = "expiryDate" -> Expires2030
          [] k = "issueDate" -> <<"2","0","2","0","-","0","1","-","0","1">>
          [] k = "fullName" -> JohnDoe
          [] k = "dateOfBirth" -> Born1990
          [] k = "documentNumber" -> DocNumber
          [] k = "nationality" -> Usa
          [] k = "mrzLine1" -> TD3Line
          [] k = "mrzLine2" -> TD3Line
          [] k = "documentType" -> Passport
          [] OTHER -> <<>>]

DocumentKeys == { k \in FieldNames : FullDocument[k] # <<>> }

ClaimKeys == {"name", "dateOfBirth", "passportNumber", "nationality"}

InitRequestSparse ==
    /\ pc = "start"
    /\ now = Midday
    /\ \E shown \in SUBSET DocumentKeys, stated \in SUBSET ClaimKeys :
          /\ Cardinality(shown) <= 2 \/ Cardinality(shown) >= Cardinality(DocumentKeys) - 1
          /\ fields = [k \in FieldNames |->
                         IF k \in shown THEN Field(FullDocument[k], 95)
                         ELSE AbsentField]
          /\ claim = [name |-> IF "name" \in stated THEN JohnDoe ELSE <<>>,
                      dateOfBirth |-> IF "dateOfBirth" \in stated THEN Born1990 ELSE <<>>,
                      passportNumber |-> IF "passportNumber" \in stated THEN DocNumber ELSE <<>>,
                      nationality |-> IF "nationality" \in stated THEN Usa ELSE <<>>,
                      intendedVisaType |-> Tourist]

EmptyClaim ==
    [name |-> <<>>, dateOfBirth |-> <<>>, passportNumber |-> <<>>,
     nationality |-> <<>>, intendedVisaType |-> <<>>]

\* six fields of a document with their confidences, the document expired
\* or not, against a claim that agrees, that disagrees, or that is empty
ProfileKeys ==
    <<"expiryDate", "fullName", "documentNumber", "nationality", "firstName",
      "lastName">>

ConfidenceProfiles ==
    { <<90, 90, 90, 90, 90, 95>>, <<0, 0, 0, 0, 0, 0>>,
      <<100, 100, 100, 100, 100, 100>>, <<0, 50, 95, 0, 1, 100>>,
      <<5, 5, 5, 5, 5, 10>>, <<60, 59, 0, 75, 80, 33>> }

OtherClaim ==
    [name |-> <<"B","o","b"," ","L","e","e">>, dateOfBirth |-> <<>>,
     passportNumber |-> <<"X","9">>, nationality |-> <<"C","A","N">>,
     intendedVisaType |-> Tourist]

InitRequestConfidence ==
    /\ pc = "start"
    /\ now = Midday
    /\ \E profile \in ConfidenceProfiles,
          exp \in {Expires2030, <<"2","0","2","0","-","0","1","-","0","1">>},
          cl \in {MkClaim(<<>>, Tourist), OtherClaim, EmptyClaim} :
          /\ fields = [k \in FieldNames |->
                LET v == CASE k = "expiryDate" -> exp
                           [] k = "fullName" -> JohnDoe
                           [] k = "documentNumber" -> DocNumber
                           [] k = "nationality" -> Usa
                           [] k = "firstName" -> <<"J","o","h","n">>
                           [] k = "lastName" -> <<"D","o","e">>
                           [] OTHER -> <<>>
                IN  IF v = <<>> THEN AbsentField
                    ELSE Field(v, profile[CHOOSE i \in 1..6 : ProfileKeys[i] = k])]
          /\ claim = cl

\* nothing was read off the document; the applicant states nothing, the
\* claim of John Doe or another one, and asks for any visa type
InitRequestEmpty ==
    /\ pc = "start"
    /\ fields = EmptyMapping
    /\ \E clock \in Clocks, vt \in VisaTypes,
          cl \in {EmptyClaim, MkClaim(Seventeen, Tourist), OtherClaim} :
          /\ now = clock
          /\ claim = [cl EXCEPT !.intendedVisaType = vt]

NoEntry == [form |-> "none", value |-> <<>>, confidence |-> 0]
ObjectEntry(v, c) == [form |-> "object", value |-> v, confidence |-> c]
FlatEntry(v) == [form |-> "flat", value |-> v, confidence |-> 0]

NoEntries == [k \in FieldNames |-> NoEntry]

\* no vision call at all: assessEligibility is called directly
NoResponse == [kind |-> "none", entries |-> NoEntries]

\* the JSON answer a mapping was parsed from
ResponseOf(fs) ==
    [kind |-> "json",
     entries |-> [k \in FieldNames |->
                    IF fs[k].present THEN ObjectEntry(fs[k].value, fs[k].confidence)
                    ELSE NoEntry]]

\* the passport of John Doe, every field with its confidence
JohnDoePassport ==
    [kind |-> "json",
     entries |-> [k \in FieldNames |->
        CASE k = "fullName" -> ObjectEntry(JohnDoe, 95)
          [] k = "dateOfBirth" -> ObjectEntry(Born1990, 90)
          [] k = "documentNumber" -> ObjectEntry(DocNumber, 90)
          [] k = "nationality" -> ObjectEntry(Usa, 92)
          [] k = "expiryDate" -> ObjectEntry(Expires2030, 90)
          [] k = "documentType" -> ObjectEntry(Passport, 95)
          [] OTHER -> NoEntry]]

\* the same passport answered as plain strings, the date of birth not in
\* ISO form, a short first MRZ line and a blank second one
FlatPassport ==
    [kind |-> "json",
     entries |-> [k \in FieldNames |->
        CASE k = "fullName" -> FlatEntry(JohnDoe)
          [] k = "dateOfBirth" -> FlatEntry(<<"1","5","/","0","1","/","1","9","9","0">>)
          [] k = "documentNumber" -> FlatEntry(DocNumber)
          [] k = "nationality" -> FlatEntry(Usa)
          [] k = "expiryDate" -> FlatEntry(Expires2030)
          [] k = "documentType" -> FlatEntry(<<>>)
          [] k = "mrzLine1" -> FlatEntry(ShortLine)
          [] k = "mrzLine2" -> FlatEntry(Blank)
          [] k = "mrzLine3" -> FlatEntry(TD1Line)
          [] OTHER -> NoEntry]]

\* a poor image: the fields that could not be read come with confidence 0
UnclearPassport ==
    [kind |-> "json",
     entries |-> [k \in FieldNames |->
        CASE k = "fullName" -> ObjectEntry(JohnDoe, 70)
          [] k = "dateOfBirth" -> ObjectEntry(Born1990, 85)
          [] k = "documentNumber" -> ObjectEntry(<<>>, 0)
          [] k = "nationality" -> ObjectEntry(Usa, 0)
          [] k = "expiryDate" -> ObjectEntry(Expires2030, 90)
          [] OTHER -> NoEntry]]

Responses ==
    { [kind |-> "threw", entries |-> NoEntries],
      [kind |-> "noJson", entries |-> NoEntries],
      [kind |-> "badJson", entries |-> NoEntries],
      [kind |-> "json", entries |-> NoEntries],
      JohnDoePassport, FlatPassport, UnclearPassport }

\* requests as the endpoint receives them, before the vision call
InitReceived ==
    /\ pc = "received"
    /\ fields = EmptyMapping
    /\ \E clock \in Clocks, r \in Responses,
          cl \in {EmptyClaim, MkClaim(Born1990, Tourist), MkClaim(Born1985, Student)} :
          /\ now = clock
          /\ response = r
          /\ claim = cl

Init ==
    /\ ticks = 0
    /\ elig = NoResult
    /\ result = NoAnswer
    /\ \/ /\ \/ InitRequest
             \/ InitRequestIssue
             \/ InitRequestBirth
             \/ InitRequestNames
             \/ InitRequestMrz
             \/ InitRequestSparse
             \/ InitRequestConfidence
             \/ InitRequestEmpty
          /\ checks = <<>>
          /\ response = ResponseOf(fields)
          /\ visionCalls = 1
       \/ InitReceived /\ checks = <<>> /\ visionCalls = 0
       \/ /\ \/ InitCallChecks
             \/ InitCallDates
             \/ InitCallRate
          /\ response = NoResponse
          /\ visionCalls = 0

\* time passes before a step of the request: the clock moves to the next
\* instant of the model (later the same day, then midnight of the next day)
NextInstant(dt) ==
    IF dt.t = 0 THEN [dt EXCEPT !.t = 1]
    ELSE IF dt.d < DaysInMonth(dt.y, dt.m) THEN MkDate(dt.y, dt.m, dt.d + 1, 0)
    ELSE IF dt.m < 12 THEN MkDate(dt.y, dt.m + 1, 1, 0)
    ELSE MkDate(dt.y + 1, 1, 1, 0)

Tick ==
    /\ pc \in {"start", "validated"}
    /\ ticks < MaxTicks
    /\ now' = NextInstant(now)
    /\ ticks' = ticks + 1
    /\ UNCHANGED <<pc, fields, claim, checks, elig, response, visionCalls, result>>

\* verifyDocument, step 4
Validate ==
    /\ pc = "start"
    /\ checks' = validateDocument(fields, claim, now)
    /\ pc' = "validated"
    /\ UNCHANGED <<now, ticks, fields, claim, elig, response, visionCalls, result>>

\* verifyDocument, step 5
Assess ==
    /\ pc = "validated"
    /\ elig' = assessEligibility(fields, claim, checks, now)
    /\ pc' = "assessed"
    /\ UNCHANGED <<now, ticks, fields, claim, checks, response, visionCalls, result>>

\* a direct call of assessEligibility
AssessCall ==
    /\ pc = "call"
    /\ elig' = assessEligibility(fields, claim, checks, now)
    /\ pc' = "returned"
    /\ UNCHANGED <<now, ticks, fields, claim, checks, response, visionCalls, result>>

\* verifyDocument, steps 1 to 3: the vision call, then parseVisionAnalysis.
\* A rejected call is caught by verifyDocument, rethrown, and answered by
\* the endpoint with status 500.
Analyze ==
    /\ pc = "received"
    /\ visionCalls' = visionCalls + 1
    /\ IF response.kind = "threw"
       THEN /\ pc' = "failed"
            /\ result' = ErrorAnswer(<<"Document verification failed: ",
                                       "vision call rejected">>)
            /\ UNCHANGED fields
       ELSE /\ pc' = "start"
            /\ fields' = parseVisionAnalysis(response)
            /\ UNCHANGED result
    /\ UNCHANGED <<now, ticks, claim, checks, elig, response>>

\* verifyDocument, steps 6 to 8, and the answer of the endpoint
Aggregate ==
    /\ pc = "assessed"
    /\ result' = VerificationResult(calculateOverallConfidence(fields, checks),
                                    generateRecommendations(checks, elig),
                                    generateSummary(fields, checks, elig))
    /\ pc' = "done"
    /\ UNCHANGED <<now, ticks, fields, claim, checks, elig, response, visionCalls>>

Next == Tick \/ Validate \/ Assess \/ AssessCall \/ Analyze \/ Aggregate

Spec == Init /\ [][Next]_vars

-----------------------------------------------------------------------------
(* Properties.  After "assessed" and after "returned" the clock no longer  *)
(* moves, so now is the instant assessEligibility read.                    *)

Returned == pc \in {"assessed", "returned"}

\* the policy applied is one of the five of the table
TablePolicyApplied ==
    SelectPolicy(RequestedVisaType(claim))
        \in { eligibilityPolicies[k] : k \in DOMAIN eligibilityPolicies }

\* the key of the table policy applied
AppliedKey ==
    LET key == ToLowerCase(IF claim.intendedVisaType = <<>> THEN Tourist
                           ELSE claim.intendedVisaType)
    IN  IF key \in {Tourist, Business, Student, Work, Transit} THEN key ELSE Tourist

\* which return statement of assessEligibility produced a reason
ReasonKind(r) ==
    CASE r = <<>> -> "none"
      [] Head(r) = "Critical validation failures: " -> "critical"
      [] Head(r) = "Applicant age (" /\ r[3] = ") is below " -> "minAge"
      [] Head(r) = "Applicant age (" /\ r[3] = ") exceeds " -> "maxAge"
      [] Head(r) = "Passport must be valid for at least " -> "validity"
      [] Head(r) = "Nationality " /\ r[Len(r)] = " visa" -> "notAllowed"
      [] Head(r) = "Nationality " /\ r[Len(r)] # " visa" -> "denied"
      [] Head(r) = "Insufficient validation pass rate (" -> "passRate"
      [] Head(r) = "Applicant meets all eligibility requirements for " -> "accept"
      [] OTHER -> "quality"

IsCriticalFailure(c) ==
    c.field \in {"expiryDate", "documentNumber", "dateOfBirth", "name"} /\ ~c.passed

SomeCriticalFailure == \E i \in 1..Len(checks) : IsCriticalFailure(checks[i])

RECURSIVE CriticalMessages(_)
CriticalMessages(cs) ==
    IF cs = <<>> THEN <<>>
    ELSE (IF IsCriticalFailure(Head(cs)) THEN <<Head(cs).message>> ELSE <<>>)
         \o CriticalMessages(Tail(cs))

DobMismatch ==
    /\ claim.dateOfBirth # <<>>
    /\ HasValue(fields, "dateOfBirth")
    /\ claim.dateOfBirth # fields["dateOfBirth"].value

\* C1: under each of the five policies, a failed check on expiryDate,
\* documentNumber, dateOfBirth or name makes the result ineligible, with the
\* reason made of exactly the messages of those failed checks, in sequence
\* order, joined by "; "; and in the pipeline a claimed date of birth that
\* differs from the extracted one gives a failed dateOfBirth check naming both
\* dates and an ineligible result whose reason contains its message.
C1_CriticalFailuresReject ==
    /\ (Returned /\ TablePolicyApplied /\ SomeCriticalFailure) =>
          /\ ~elig.eligible
          /\ elig.reason = <<"Critical validation failures: ">>
                           \o Join(CriticalMessages(checks), <<"; ">>)
    /\ (pc = "assessed" /\ TablePolicyApplied /\ DobMismatch) =>
          \E i \in 1..Len(checks) :
             /\ checks[i].field = "dateOfBirth" /\ ~checks[i].passed
             /\ Includes(checks[i].message, fields["dateOfBirth"].value)
             /\ Includes(checks[i].message, claim.dateOfBirth)
             /\ ~elig.eligible
             /\ Includes(elig.reason, checks[i].message)

\* a request whose dates of birth differ and whose age check failed too
C1_Witness ==
    /\ pc = "assessed" /\ TablePolicyApplied /\ DobMismatch
    /\ \E i, j \in 1..Len(checks) :
          /\ checks[i].field = "dateOfBirth" /\ ~checks[i].passed
          /\ checks[j].field = "age" /\ ~checks[j].passed
    /\ ~elig.eligible

\* the conditions of the rejection rules, on the arguments of the call
AppliedPolicy == SelectPolicy(RequestedVisaType(claim))

DobParses == HasValue(fields, "dateOfBirth") /\ ParseISO(fields["dateOfBirth"].value).valid

ExpiryParses == HasValue(fields, "expiryDate") /\ ParseISO(fields["expiryDate"].value).valid

AgeNow == DifferenceInYears(now, ParseISO(fields["dateOfBirth"].value)).v

PassedNow == Cardinality({ i \in 1..Len(checks) : checks[i].passed })

Rule1Applies == AppliedPolicy.requiresValidPassport /\ SomeCriticalFailure

Rule2MinApplies ==
    DobParses /\ ~AppliedPolicy.minAge.nan /\ AgeNow < AppliedPolicy.minAge.v

Rule2MaxApplies ==
    DobParses /\ ~AppliedPolicy.maxAge.nan /\ AgeNow > AppliedPolicy.maxAge.v

Rule3Applies ==
    /\ ExpiryParses /\ ~AppliedPolicy.minPassportValidity.nan
    /\ TimeKey(ParseISO(fields["expiryDate"].value))
         < TimeKey(AddMonths(now, AppliedPolicy.minPassportValidity))

Rule4Applies ==
    /\ AppliedPolicy.hasAllowedNationalities /\ HasValue(fields, "nationality")
    /\ ToUpperCase(fields["nationality"].value) \notin AppliedPolicy.allowedNationalities

Rule5Applies ==
    /\ AppliedPolicy.hasDeniedNationalities /\ HasValue(fields, "nationality")
    /\ ToUpperCase(fields["nationality"].value) \in AppliedPolicy.deniedNationalities

Rule6Applies ==
    Cardinality({ k \in FieldNames : fields[k].present /\ fields[k].confidence < 60 }) > 3

Rule7Applies == Len(checks) > 0 /\ 10 * PassedNow < 7 * Len(checks)

FirstApplicableRule ==
    CASE Rule1Applies -> "critical"
      [] ~Rule1Applies /\ Rule2MinApplies -> "minAge"
      [] ~Rule1Applies /\ ~Rule2MinApplies /\ Rule2MaxApplies -> "maxAge"
      [] OTHER ->
           IF Rule3Applies THEN "validity"
           ELSE IF Rule4Applies THEN "notAllowed"
           ELSE IF Rule5Applies THEN "denied"
           ELSE IF Rule6Applies THEN "quality"
           ELSE IF Rule7Applies THEN "passRate"
           ELSE "accept"

\* C2: the reason returned is that of the earliest applicable rule in the
\* order critical failure, age below minAge, age above maxAge, validity
\* window, nationality not allowed, nationality denied, more than 3
\* low-confidence fields, pass rate below 0.7; eligible = TRUE exactly when
\* none of them applies.
C2_FirstApplicableRuleWins ==
    Returned =>
        /\ ReasonKind(elig.reason) = FirstApplicableRule
        /\ elig.eligible <=> (FirstApplicableRule = "accept")

\* several rules apply at once and the earliest one is reported
C2_Witness ==
    /\ Returned
    /\ ~Rule1Applies /\ ~Rule2MinApplies /\ ~Rule2MaxApplies
    /\ Rule3Applies /\ Rule6Applies /\ Rule7Applies
    /\ ReasonKind(elig.reason) = "validity"

\* the age bounds of the five policies
PolicyMinAge(key) ==
    CASE key = Business -> 21 [] key = Student -> 16 [] OTHER -> 18

PolicyHasMaxAge(key) == key \in {Student, Work}

PolicyMaxAge(key) == IF key = Student THEN 35 ELSE 65

AgeOutOfBounds ==
    \/ AgeNow < PolicyMinAge(AppliedKey)
    \/ PolicyHasMaxAge(AppliedKey) /\ AgeNow > PolicyMaxAge(AppliedKey)

\* C3: with no critical failure and a parseable extracted date of birth, the
\* age rule rejects exactly when the age in whole years is below the policy's
\* minAge or above its maxAge (tourist 18/-, business 21/-, student 16/35,
\* work 18/65, transit 18/-), the bounds themselves being accepted; for the
\* tourist policy and age 17 the reason mentions "minimum age requirement (18)".
C3_AgeRule ==
    (Returned /\ TablePolicyApplied /\ ~SomeCriticalFailure /\ DobParses) =>
        /\ (ReasonKind(elig.reason) \in {"minAge", "maxAge"}) <=> AgeOutOfBounds
        /\ AgeOutOfBounds => ~elig.eligible
        /\ (AppliedKey = Tourist /\ AgeNow = 17) =>
              Includes(elig.reason, <<"minimum age requirement (", "18", ")">>)

\* a tourist request for an applicant aged 17, rejected by the age rule
C3_Witness ==
    /\ Returned /\ claim.intendedVisaType = Tourist /\ ~SomeCriticalFailure
    /\ DobParses /\ AgeNow = 17
    /\ ReasonKind(elig.reason) = "minAge"

\* the validity windows of the five policies, in months
PolicyValidityMonths(key) ==
    CASE key \in {Student, Work} -> 12 [] key = Transit -> 3 [] OTHER -> 6

ExpiresInsideWindow ==
    TimeKey(ParseISO(fields["expiryDate"].value))
        < TimeKey(AddMonths(now, Num(PolicyValidityMonths(AppliedKey))))

\* C4: when rules 1-2 do not reject and the extracted expiry date parses, the
\* validity rule rejects exactly when the expiry is strictly before now + the
\* policy's window (tourist 6, business 6, student 12, work 12, transit 3
\* months); an expiry exactly at the threshold is accepted by this rule.
C4_ValidityWindow ==
    (/\ Returned /\ TablePolicyApplied /\ ExpiryParses
     /\ ReasonKind(elig.reason) \notin {"critical", "minAge", "maxAge"}) =>
        /\ (ReasonKind(elig.reason) = "validity") <=> ExpiresInsideWindow
        /\ ExpiresInsideWindow => ~elig.eligible

\* a request whose expiry check passed (not expired) and that is rejected
\* because the document expires inside the policy's window
C4_Witness ==
    /\ pc = "assessed" /\ TablePolicyApplied /\ ExpiryParses
    /\ checks[1].field = "expiryDate" /\ checks[1].passed
    /\ ReasonKind(elig.reason) = "validity"

DobUnparseable ==
    HasValue(fields, "dateOfBirth") /\ ~ParseISO(fields["dateOfBirth"].value).valid

ExpiryUnparseable ==
    HasValue(fields, "expiryDate") /\ ~ParseISO(fields["expiryDate"].value).valid

\* C5: with no critical failure, an extracted date of birth that does not
\* parse gives an ineligible result with the "unable to verify age" reason,
\* and (the date of birth being absent or parseable and the age rule not
\* rejecting) an expiry date that does not parse gives an ineligible result
\* with the "unable to verify passport validity" reason.
C5_UnparseableDateRejects ==
    /\ (Returned /\ TablePolicyApplied /\ ~SomeCriticalFailure /\ DobUnparseable) =>
          /\ ~elig.eligible
          /\ elig.reason = <<"Unable to verify age - invalid date of birth">>
    /\ (/\ Returned /\ TablePolicyApplied /\ ~SomeCriticalFailure
        /\ ~DobUnparseable /\ ExpiryUnparseable
        /\ ReasonKind(elig.reason) \notin {"minAge", "maxAge"}) =>
          /\ ~elig.eligible
          /\ elig.reason = <<"Unable to verify passport validity period">>

\* rules 1 to 6 do not reject: the pass-rate gate is reached
GateReached ==
    /\ ~Rule1Applies /\ ~Rule2MinApplies /\ ~Rule2MaxApplies /\ ~Rule3Applies
    /\ ~Rule4Applies /\ ~Rule5Applies /\ ~Rule6Applies

\* C6: when the pass-rate gate is reached, the result is a rejection (with
\* the pass-rate reason) exactly when passed / total < 0.7 over all the
\* checks, a rate of exactly 0.7 being accepted; with no check at all the
\* gate passes and the result is eligible.
C6_PassRateGate ==
    (Returned /\ GateReached) =>
        /\ ~elig.eligible <=> (Len(checks) > 0 /\ 10 * PassedNow < 7 * Len(checks))
        /\ ~elig.eligible => ReasonKind(elig.reason) = "passRate"
        /\ Len(checks) = 0 => elig.eligible

\* assessEligibility returned on an empty check sequence, and accepted
C6_Witness ==
    /\ pc = "returned" /\ checks = <<>> /\ GateReached
    /\ elig.eligible /\ ReasonKind(elig.reason) = "accept"

\* C7: for a requested visa type whose lower-cased value is none of the five
\* keys (or that is absent), the verdict is the one of a tourist request on
\* the same fields and checks.
C7_UnknownTypeIsTourist ==
    (/\ Returned
     /\ ToLowerCase(claim.intendedVisaType)
          \notin {Tourist, Business, Student, Work, Transit}) =>
        elig.eligible =
            assessEligibility(fields, [claim EXCEPT !.intendedVisaType = Tourist],
                              checks, now).eligible

\* C8 as stated: every result but the critical-failure rejection carries the
\* key of the policy applied, the critical-failure rejection the requested
\* string.
C8_VisaTypeIsPolicyKey ==
    (Returned /\ TablePolicyApplied /\ ReasonKind(elig.reason) # "critical") =>
        elig.visaType = AppliedKey

\* C8, amended: every result, on whatever branch, carries the requested visa
\* type exactly as given (its letter case kept, recognized or not), and
\* "tourist" when no type is given.
C8_VisaTypeIsRequested ==
    Returned =>
        elig.visaType = (IF claim.intendedVisaType = <<>> THEN Tourist
                         ELSE claim.intendedVisaType)

\* a request for "Student" assessed past rule 1: the student policy is
\* applied and the result carries "Student"
C8_Witness ==
    /\ Returned /\ claim.intendedVisaType # <<>>
    /\ claim.intendedVisaType # Student /\ AppliedKey = Student
    /\ ReasonKind(elig.reason) # "critical"
    /\ elig.visaType = claim.intendedVisaType

ExpiryCount(cs) == Cardinality({ i \in 1..Len(cs) : cs[i].field = "expiryDate" })

\* what the expiry rule emitted at the instant today, for a parseable expiry
ExpiryRuleShape(cs, today) ==
    LET v == fields["expiryDate"].value
        notExpired == ~(TimeKey(ParseISO(v)) < TimeKey(today))
        soon == notExpired /\ TimeKey(ParseISO(v)) < TimeKey(SetMonthPlus(today, 6))
    IN  /\ cs[1].field = "expiryDate"
        /\ cs[1].passed <=> notExpired
        /\ Includes(cs[1].message, v)
        /\ IF soon
           THEN /\ ExpiryCount(cs) = 2
                /\ cs[2].field = "expiryDate" /\ cs[2].passed
                /\ cs[2].message = <<"Warning: Document expires within 6 months">>
           ELSE ExpiryCount(cs) = 1

\* C9: for a present, parseable expiryDate the validator emits a first
\* expiryDate check, passed iff the expiry is not strictly before now, its
\* message containing the date string, and right after it a second, passed
\* expiryDate check (the warning) iff the document is not expired and expires
\* before now + 6 months (the clock's month advanced by 6); there are two
\* expiryDate checks in that case and one in every other.
C9_ExpiryRule ==
    [][(pc = "start" /\ pc' = "validated" /\ ExpiryParses)
          => ExpiryRuleShape(checks', now)]_vars

\* an unexpired document that expires within 6 months: two passed checks
C9_Witness ==
    /\ pc = "validated" /\ ExpiryParses
    /\ ExpiryCount(checks) = 2
    /\ checks[1].passed /\ checks[2].passed

ChecksOf(f) == SelectSeq(checks, LAMBDA c : c.field = f)

\* C10: a date that does not parse never gives a passed check: an
\* unparseable expiryDate (issueDate) gives exactly one check on that field,
\* failed, with the invalid-format message; an unparseable extracted
\* dateOfBirth with a claimed one gives a failed dateOfBirth check "Invalid
\* date of birth format" and no age check.
C10_MalformedDateFails ==
    pc \in {"validated", "assessed"} =>
        /\ ExpiryUnparseable =>
              ChecksOf("expiryDate")
                 = <<Check("expiryDate", FALSE, <<"Invalid expiry date format">>)>>
        /\ (HasValue(fields, "issueDate") /\ ~ParseISO(fields["issueDate"].value).valid) =>
              ChecksOf("issueDate")
                 = <<Check("issueDate", FALSE, <<"Invalid issue date format">>)>>
        /\ (DobUnparseable /\ claim.dateOfBirth # <<>>) =>
              /\ \E i \in 1..Len(checks) :
                    checks[i] = Check("dateOfBirth", FALSE,
                                      <<"Invalid date of birth format">>)
              /\ ChecksOf("age") = <<>>

\* the full years between a birthday and an instant: the difference of the
\* calendar years, less one while the birthday of the year is still ahead
FullYears(birth, today) ==
    (today.y - birth.y)
    - (IF today.m < birth.m \/ (today.m = birth.m /\ today.d < birth.d)
       THEN 1 ELSE 0)

\* what the date-of-birth rule emitted at the instant today
DobRuleShape(cs, today) ==
    LET dobAt == { i \in 1..Len(cs) : cs[i].field = "dateOfBirth" }
        ageAt == { i \in 1..Len(cs) : cs[i].field = "age" }
        v == fields["dateOfBirth"].value
    IN  IF claim.dateOfBirth = <<>> \/ ~fields["dateOfBirth"].present
        THEN dobAt = {} /\ ageAt = {}
        ELSE /\ Cardinality(dobAt) = 1
             /\ \A i \in dobAt :
                   /\ cs[i].passed <=>
                         /\ Len(claim.dateOfBirth) = Len(v)
                         /\ \A j \in 1..Len(v) : claim.dateOfBirth[j] = v[j]
                   /\ ParseISO(v).valid =>
                         /\ ageAt = {i + 1}
                         /\ cs[i + 1].passed <=>
                               /\ 18 <= FullYears(ParseISO(v), today)
                               /\ FullYears(ParseISO(v), today) < 120

\* C11: when a claimed and an extracted date of birth are both present the
\* validator emits one dateOfBirth check, passed iff the two strings are
\* equal character by character, and, when the extracted date parses, one
\* age check right after it, passed iff 18 <= age < 120; when either date
\* of birth is absent it emits neither check.
C11_DateOfBirthRule ==
    [][(pc = "start" /\ pc' = "validated") => DobRuleShape(checks', now)]_vars

\* an applicant of 119 whose date of birth was stated with a trailing
\* space: the dateOfBirth check failed, the age check passed
C11_Witness ==
    /\ pc = "validated" /\ DobParses
    /\ claim.dateOfBirth = Born1990Padded
    /\ \E i \in 1..(Len(checks) - 1) :
          /\ checks[i].field = "dateOfBirth" /\ ~checks[i].passed
          /\ checks[i + 1].field = "age" /\ checks[i + 1].passed
    /\ fields["dateOfBirth"].value = <<"1","9","0","6","-","1","1","-","0","3">>

\* the edit distance by the textbook recurrence: a cell is the least of a
\* deletion, an insertion and a substitution that is free on equal letters
RECURSIVE EditRow(_, _, _, _, _)
EditRow(a, ch, prev, j, acc) ==
    IF j > Len(a) THEN acc
    ELSE LET del == prev[j + 1] + 1
             ins == acc[j] + 1
             sub == prev[j] + (IF a[j] = ch THEN 0 ELSE 1)
             m == IF del < ins THEN del ELSE ins
         IN  EditRow(a, ch, prev, j + 1, Append(acc, IF m < sub THEN m ELSE sub))

RECURSIVE EditRows(_, _, _, _)
EditRows(a, b, i, prev) ==
    IF i > Len(b) THEN prev
    ELSE LET row == EditRow(a, b[i], prev, 1, <<i>>)
         IN  IF Len(row) = Len(prev) THEN EditRows(a, b, i + 1, row) ELSE row

EditDistance(a, b) ==
    EditRows(a, b, 1, [j \in 1..(Len(a) + 1) |-> j - 1])[Len(a) + 1]

MaxLen(a, b) == IF Len(a) > Len(b) THEN Len(a) ELSE Len(b)

\* the extracted display name and the claimed name, trimmed and lower-cased
DisplayName ==
    ToLowerCase(Trim(IF HasValue(fields, "fullName") THEN fields["fullName"].value
                     ELSE ValueOrEmpty(fields, "firstName") \o <<" ">>
                          \o ValueOrEmpty(fields, "lastName")))

ClaimedName == ToLowerCase(Trim(claim.name))

NameInputsPresent ==
    /\ claim.name # <<>>
    /\ HasValue(fields, "fullName") \/ HasValue(fields, "firstName")

\* C12: when a claimed name and an extracted fullName or firstName are
\* present there is exactly one name check; it passed iff the display name
\* contains the claimed name, or the claimed name contains the display name,
\* or their similarity 1 - distance / longer length is strictly above 0.7
\* (1 for two empty strings).  The similarity is symmetric, and 1 for equal
\* strings.
C12_NameRule ==
    (pc \in {"validated", "assessed"} /\ NameInputsPresent) =>
        LET e == DisplayName
            c == ClaimedName
            sim == calculateSimilarity(e, c)
            back == calculateSimilarity(c, e)
            self == calculateSimilarity(e, e)
        IN  /\ Len(ChecksOf("name")) = 1
            /\ ChecksOf("name")[1].passed <=>
                  \/ Includes(e, c)
                  \/ Includes(c, e)
                  \/ 10 * (MaxLen(e, c) - EditDistance(e, c)) > 7 * MaxLen(e, c)
            /\ sim.num * back.den = back.num * sim.den
            /\ self.num = self.den
            /\ IF MaxLen(e, c) = 0 THEN sim.num = sim.den
               ELSE sim.num * MaxLen(e, c)
                       = (MaxLen(e, c) - EditDistance(e, c)) * sim.den

\* "anna smith" against "anne smyte": three letters of ten differ, the
\* similarity is 0.7 and the name check failed
C12_Witness ==
    /\ pc = "validated" /\ NameInputsPresent
    /\ Len(DisplayName) = 10 /\ Len(ClaimedName) = 10
    /\ EditDistance(DisplayName, ClaimedName) = 3
    /\ Len(ChecksOf("name")) = 1 /\ ~ChecksOf("name")[1].passed

\* no character of the line is outside A-Z, 0-9 and the filler <
OnlyMrzCharacters(line) ==
    ~\E i \in 1..Len(line) :
        /\ line[i] \notin Range(UpperChars)
        /\ line[i] \notin Range(DigitChars)
        /\ line[i] # "<"

MrzLine(k) == fields[k].value

Validated == pc \in {"validated", "assessed", "done"}

NoChecksOn(f) == \A i \in 1..Len(checks) : checks[i].field # f

Shown(k) == fields[k].present /\ fields[k].value # <<>>

\* C14: a rule whose input is missing emits nothing: no expiryDate check
\* without an expiryDate, no issueDate check without an issueDate, no name
\* check without a claimed name or without fullName and firstName, no
\* dateOfBirth and no age check without either date of birth, no
\* documentNumber (nationality) check without either number (nationality),
\* no mrzChecksum check without mrzLine1 or mrzLine2, no documentType check
\* without a documentType.  For the empty mapping the checks are the one
\* passed confidence check, and the request is answered with a
\* VerificationResult, not with an error.
C14_MissingInputSuppresses ==
    Validated =>
        /\ ~Shown("expiryDate") => NoChecksOn("expiryDate")
        /\ ~Shown("issueDate") => NoChecksOn("issueDate")
        /\ (claim.name = <<>> \/ (~Shown("fullName") /\ ~Shown("firstName")))
              => NoChecksOn("name")
        /\ (claim.dateOfBirth = <<>> \/ ~Shown("dateOfBirth"))
              => NoChecksOn("dateOfBirth") /\ NoChecksOn("age")
        /\ (claim.passportNumber = <<>> \/ ~Shown("documentNumber"))
              => NoChecksOn("documentNumber")
        /\ (claim.nationality = <<>> \/ ~Shown("nationality"))
              => NoChecksOn("nationality")
        /\ (~Shown("mrzLine1") \/ ~Shown("mrzLine2")) => NoChecksOn("mrzChecksum")
        /\ ~Shown("documentType") => NoChecksOn("documentType")
        /\ (\A k \in FieldNames : ~fields[k].present) =>
              /\ Len(checks) = 1
              /\ checks[1].field = "confidence" /\ checks[1].passed
              /\ pc = "done" => result.status = "ok"

\* a full claim against the empty mapping, answered with a result
C14_Witness ==
    /\ pc = "done" /\ result.status = "ok"
    /\ \A k \in FieldNames : ~fields[k].present
    /\ claim.name # <<>> /\ claim.dateOfBirth # <<>>
    /\ claim.passportNumber # <<>> /\ claim.nationality # <<>>
    /\ Len(checks) = 1

\* the rule a check field belongs to, 0 for a name outside the vocabulary
RuleOf(f) ==
    CASE f = "expiryDate" -> 1
      [] f = "issueDate" -> 2
      [] f = "name" -> 3
      [] f \in {"dateOfBirth", "age"} -> 4
      [] f = "documentNumber" -> 5
      [] f = "nationality" -> 6
      [] f = "mrzChecksum" -> 7
      [] f = "documentType" -> 8
      [] f = "confidence" -> 9
      [] OTHER -> 0

\* C15: the check sequence is never empty; the field of every check is one
\* of the ten names; the checks come in the order of the rules 1 to 9, those
\* of one rule next to each other; there is exactly one confidence check,
\* it is the last, and it passed iff no present field has a confidence
\* below 60.
C15_CheckSequenceShape ==
    Validated =>
        /\ Len(checks) >= 1
        /\ \A i \in 1..Len(checks) : RuleOf(checks[i].field) >= 1
        /\ \A i \in 1..Len(checks), j \in 1..Len(checks) :
              i < j => RuleOf(checks[i].field) <= RuleOf(checks[j].field)
        /\ \A i \in 1..Len(checks) :
              checks[i].field = "confidence" <=> i = Len(checks)
        /\ checks[Len(checks)].passed <=>
              ~\E k \in FieldNames : fields[k].present /\ fields[k].confidence < 60

\* a document whose fields all have confidence 60, checked by several rules:
\* the confidence check comes last and passed
C15_Witness ==
    /\ pc = "validated" /\ Len(checks) >= 4
    /\ \E k \in FieldNames : fields[k].present
    /\ \A k \in FieldNames : fields[k].present => fields[k].confidence = 60
    /\ checks[Len(checks)].field = "confidence" /\ checks[Len(checks)].passed

VisionFailed == response.kind \in {"threw", "noJson", "badJson"}

\* C16: when the vision call throws, or its answer holds no JSON object or
\* one that does not parse, the validator, the eligibility engine and the
\* aggregator are not run and no VerificationResult is answered (the
\* endpoint answers with an error); the vision model is called at most once
\* for a request.
C16_VisionFailureShortCircuits ==
    /\ VisionFailed =>
          /\ pc \notin {"validated", "assessed", "done"}
          /\ result.status # "ok"
          /\ checks = <<>> /\ elig = NoResult
    /\ visionCalls <= 1

\* C17: the core is a function of the fields and the claim alone: once a
\* request is answered, executing the core again on the same fields and
\* claim gives the same checks, the same eligibility, the same confidence,
\* recommendations and summary, whatever time passed since the validator
\* and the engine read the clock.
C17_CoreIsPure ==
    pc = "done" =>
        LET again == validateDocument(fields, claim, now)
            assessed == assessEligibility(fields, claim, again, now)
        IN  /\ checks = again
            /\ elig = assessed
            /\ result.overallConfidence = calculateOverallConfidence(fields, again)
            /\ result.recommendedActions = generateRecommendations(again, assessed)
            /\ result.summary = generateSummary(fields, again, assessed)

PresentConfidences ==
    { <<k, fields[k].confidence>> : k \in { f \in FieldNames : fields[f].present } }

RECURSIVE SumOfPairs(_)
SumOfPairs(ps) ==
    IF ps = {} THEN 0
    ELSE LET x == CHOOSE y \in ps : TRUE IN x[2] + SumOfPairs(ps \ {x})

PassedChecks == Cardinality({ i \in 1..Len(checks) : checks[i].passed })

\* ten times 0.6 * (s / n) + 0.4 * score, as the fraction [num, den], the
\* score being 100 * passed / total, or 70 when there is no check
WeightedTenfold(s, n) ==
    IF Len(checks) = 0 THEN [num |-> 6 * s + 280 * n, den |-> n]
    ELSE [num |-> 6 * s * Len(checks) + 400 * PassedChecks * n,
          den |-> n * Len(checks)]

\* r is the fraction tenfold / 10 rounded to the nearest integer, a half
\* rounded up, and kept within 0..100
IsRoundedHalfUp(r, tenfold) ==
    LET nearest == (2 * tenfold.num + 10 * tenfold.den) \div (20 * tenfold.den)
    IN  r = (IF nearest > 100 THEN 100 ELSE nearest)

\* r is an integer nearest to tenfold / 10: at most one half away from it
IsNearest(r, tenfold) ==
    /\ 2 * (10 * r * tenfold.den - tenfold.num) <= 10 * tenfold.den
    /\ 2 * (tenfold.num - 10 * r * tenfold.den) <= 10 * tenfold.den

\* C18 as stated: the overall confidence is 0.6 * the mean confidence of all
\* the present fields (a confidence 0 counted as a zero; 50 when no field
\* has a confidence above 0) + 0.4 * the validation score, rounded, within
\* 0..100.
C18_OverallConfidenceCountsZeros ==
    pc = "done" =>
        LET all == PresentConfidences
            tenfold == IF SumOfPairs(all) > 0
                       THEN WeightedTenfold(SumOfPairs(all), Cardinality(all))
                       ELSE WeightedTenfold(50, 1)
        IN  /\ result.overallConfidence \in 0..100
            /\ IsRoundedHalfUp(result.overallConfidence, tenfold)

\* C18, amended: the mean is taken over the fields whose confidence is
\* above 0 (50 when there is none); the overall confidence is an integer in
\* 0..100 nearest to 0.6 * mean + 0.4 * score, either neighbour when that
\* value lies halfway between two integers.
C18_OverallConfidence ==
    pc = "done" =>
        LET positive == { p \in PresentConfidences : p[2] > 0 }
            tenfold == IF positive # {}
                       THEN WeightedTenfold(SumOfPairs(positive), Cardinality(positive))
                       ELSE WeightedTenfold(50, 1)
        IN  /\ result.overallConfidence \in 0..100
            /\ IsNearest(result.overallConfidence, tenfold)

\* fields read with confidences 0, 50, 95, 0, 1, 100 and four of five
\* checks passed: the overall confidence is round(0.6 * 61.5 + 32) = 69
C18_Witness ==
    /\ pc = "done"
    /\ Cardinality({ p \in PresentConfidences : p[2] = 0 }) = 2
    /\ SumOfPairs(PresentConfidences) = 246
    /\ PassedChecks = 4 /\ Len(checks) = 5
    /\ result.overallConfidence = 69

SomeFailed(f) == \E i \in 1..Len(checks) : ~checks[i].passed /\ checks[i].field = f

FailedCount == Cardinality({ i \in 1..Len(checks) : ~checks[i].passed })

\* the recommendations of the claim, the MRZ message given iff mrz holds
Recommended(mrz) ==
    IF FailedCount = 0 /\ elig.eligible
    THEN <<"Document appears valid and applicant is eligible",
           "Proceed with visa application processing">>
    ELSE (IF SomeFailed("expiryDate")
          THEN <<"Document has expired - request renewed document">> ELSE <<>>)
         \o (IF mrz THEN <<"MRZ validation failed - verify document authenticity">>
             ELSE <<>>)
         \o (IF SomeFailed("name")
             THEN <<"Name mismatch detected - request clarification from applicant">>
             ELSE <<>>)
         \o (IF ~elig.eligible
             THEN <<"Applicant not eligible for requested visa type",
                    "Contact applicant for additional documentation or alternate visa type">>
             ELSE <<>>)
         \o (IF FailedCount > 3
             THEN <<"Multiple validation failures - manual review required">>
             ELSE <<>>)

\* C19: the recommendations are the two affirmative strings iff no check
\* failed and the applicant is eligible; otherwise they are, in this order
\* and once each, the expired-document message iff an expiryDate check
\* failed, the MRZ message iff the mrzChecksum check failed, the name
\* message iff the name check failed, the two ineligibility messages iff the
\* applicant is not eligible, and the manual-review message iff more than
\* three checks failed.
C19_Recommendations ==
    pc = "done" => result.recommendedActions = Recommended(SomeFailed("mrzChecksum"))

\* the request of John Doe: the claim and the fields read off the passport
ScenarioClaim ==
    [name |-> <<"J","o","h","n"," ","D","o","e">>,
     dateOfBirth |-> <<"1","9","9","0","-","0","1","-","1","5">>,
     passportNumber |-> <<"A","1","2","3","4","5","6","7","8">>,
     nationality |-> <<"U","S","A">>,
     intendedVisaType |-> <<"t","o","u","r","i","s","t">>]

ScenarioFields ==
    [k \in FieldNames |->
        CASE k = "fullName" -> Field(<<"J","o","h","n"," ","D","o","e">>, 95)
          [] k = "dateOfBirth" -> Field(<<"1","9","9","0","-","0","1","-","1","5">>, 90)
          [] k = "documentNumber" -> Field(<<"A","1","2","3","4","5","6","7","8">>, 90)
          [] k = "nationality" -> Field(<<"U","S","A">>, 92)
          [] k = "expiryDate" -> Field(<<"2","0","3","0","-","1","2","-","3","1">>, 90)
          [] k = "documentType" -> Field(<<"p","a","s","s","p","o","r","t">>, 95)
          [] OTHER -> AbsentField]

Scenario == fields = ScenarioFields /\ claim = ScenarioClaim

\* C20: for the request of John Doe, made more than six months before the
\* passport expires, every check passed, the applicant is eligible with
\* visa type "tourist", the overall confidence is at least 80, the
\* recommendations are the two affirmative strings, and the summary begins
\* with "Document verification successful." (the first literal chunk of the
\* summary's template).
C20_JohnDoeAccepted ==
    (Scenario /\ pc = "done") =>
        /\ \A i \in 1..Len(checks) : checks[i].passed
        /\ elig.eligible /\ elig.visaType = <<"t","o","u","r","i","s","t">>
        /\ result.status = "ok"
        /\ result.overallConfidence >= 80
        /\ result.recommendedActions
              = <<"Document appears valid and applicant is eligible",
                  "Proceed with visa application processing">>
        /\ result.summary[1] = "Document verification successful. "

\* the request of John Doe answered: eight checks, overall confidence 95
C20_Witness ==
    /\ Scenario /\ pc = "done" /\ response = JohnDoePassport
    /\ Len(checks) = 8
    /\ result.overallConfidence = 95

\* a calendar day as one number, for comparing days
DayNumber(dt) == dt.y * 10000 + dt.m * 100 + dt.d

ExpiryDay == DayNumber(ParseISO(fields["expiryDate"].value))

\* C21 as stated: for a valid expiryDate d strictly before today the expiry
\* rule emits a passed check; for d strictly after today it emits a failed
\* check whose message contains d.
C21_PastExpiryPasses ==
    [][(pc = "start" /\ pc' = "validated" /\ ExpiryParses) =>
          /\ ExpiryDay < DayNumber(now) =>
                checks'[1].field = "expiryDate" /\ checks'[1].passed
          /\ ExpiryDay > DayNumber(now) =>
                /\ checks'[1].field = "expiryDate" /\ ~checks'[1].passed
                /\ Includes(checks'[1].message, fields["expiryDate"].value)]_vars

\* C21, amended: for a valid expiryDate d strictly before today the expiry
\* rule emits one check, failed, whose message contains d; for d strictly
\* after today every check it emits passed, and the message of the first
\* contains d.
C21_PastExpiryFails ==
    [][(pc = "start" /\ pc' = "validated" /\ ExpiryParses) =>
          LET d == fields["expiryDate"].value
              at == { i \in 1..Len(checks') : checks'[i].field = "expiryDate" }
          IN  /\ 1 \in at
              /\ Includes(checks'[1].message, d)
              /\ ExpiryDay < DayNumber(now) => at = {1} /\ ~checks'[1].passed
              /\ ExpiryDay > DayNumber(now) => \A i \in at : checks'[i].passed]_vars

\* a document that expired on a day before today: its check failed with
\* "Document expired on" and the date
C21_Witness ==
    /\ pc = "validated" /\ ExpiryParses /\ ticks = 0
    /\ ExpiryDay < DayNumber(now)
    /\ checks[1] = Check("expiryDate", FALSE,
                         <<"Document expired on ">> \o fields["expiryDate"].value)

NothingExtracted == \A k \in FieldNames : ~fields[k].present

AskedVisaType ==
    IF claim.intendedVisaType = <<>> THEN <<"t","o","u","r","i","s","t">>
    ELSE claim.intendedVisaType

\* C22: an empty extraction is accepted.  For the empty mapping and any
\* claim the answered request has eligible = true with the "meets all
\* eligibility requirements" reason, overall confidence 70, the two
\* affirmative recommendations, and the success summary for "document
\* #unknown for unknown" that reports 1/1 checks passed.
C22_EmptyExtractionAccepted ==
    (pc = "done" /\ NothingExtracted) =>
        /\ elig.eligible
        /\ elig.reason
              = <<"Applicant meets all eligibility requirements for ">>
                \o AskedVisaType
                \o <<" visa. Document is valid and all required fields verified.">>
        /\ result.status = "ok"
        /\ result.overallConfidence = 70
        /\ result.recommendedActions
              = <<"Document appears valid and applicant is eligible",
                  "Proceed with visa application processing">>
        /\ result.summary
              = <<"Document verification successful. ", "document", " #", "unknown",
                  " for ", "unknown", " is valid and applicant is eligible for ">>
                \o AskedVisaType
                \o <<" visa. All validation checks passed (", "1", "/", "1", ").">>

\* a vision answer that could not be parsed, for an applicant who stated a
\* full claim: the request is answered as accepted
C22_Witness ==
    /\ pc = "done" /\ NothingExtracted
    /\ response.kind \in {"noJson", "badJson"}
    /\ claim.name # <<>> /\ claim.dateOfBirth # <<>>
    /\ elig.eligible /\ result.overallConfidence = 70

====
